---- MODULE Spec2Model ----
(***************************************************************************)
(* msgpack-visualizer: the byte recovery layer (utils/decoderUtils.ts),    *)
(* the format auto-detector, the MessagePack tree decoder                  *)
(* (services/msgpackService.ts) and the entry point parseMsgpack.          *)
(*                                                                         *)
(* A text is a sequence of UTF-16 code units, a buffer a sequence of bytes *)
(* (0..255).  Offsets are 0-based as in the source: buffer[o] is buf[o+1]. *)
(* A function that may throw returns a completion record,                  *)
(* [threw |-> FALSE, value |-> v] or [threw |-> TRUE, error |-> e].        *)
(***************************************************************************)
EXTENDS Integers, Sequences, FiniteSets, TLC

(***************************************************************************)
(* types.ts                                                                *)
(***************************************************************************)
AUTO == "AUTO"
HEX == "HEX"
BASE64 == "BASE64"
PYTHON == "PYTHON"
InputFormat == {AUTO, HEX, BASE64, PYTHON}

\* DataType (BOOLEAN and STRING are reserved words, hence the T_ prefix).
T_NULL == "Null"
T_BOOLEAN == "Boolean"
T_INTEGER == "Integer"
T_FLOAT == "Float"
T_STRING == "String"
T_BINARY == "Binary"
T_ARRAY == "Array"
T_MAP == "Map"
T_EXTENSION == "Extension"
T_UNKNOWN == "Unknown"
DataType ==
  {T_NULL, T_BOOLEAN, T_INTEGER, T_FLOAT, T_STRING, T_BINARY, T_ARRAY, T_MAP, T_EXTENSION, T_UNKNOWN}

(***************************************************************************)
(* JavaScript values.  Every value carries its typeof tag t, so that two   *)
(* values of different types are unequal without comparing payloads.       *)
(* A number is kept as a wide integer [neg, mag] (mag: base-256 digits,    *)
(* most significant first, no leading zero) because uint32 and 64-bit      *)
(* values exceed the checker's machine integers; a float is kept as its    *)
(* IEEE bit pattern.                                                       *)
(***************************************************************************)
Undefined == [t |-> "undefined"]
Null == [t |-> "null"]
Bool(b) == [t |-> "boolean", v |-> b]
Str(s) == [t |-> "string", v |-> s]
Enum(e) == [t |-> "string", v |-> e]
Uint8Array(b) == [t |-> "Uint8Array", v |-> b]
Array(a) == [t |-> "array", v |-> a]
Number(w) == [t |-> "number", v |-> w]
BigInt(w) == [t |-> "bigint", v |-> w]
Float(width, bits) == [t |-> "number", v |-> [ieee |-> width, bits |-> bits]]

RECURSIVE StripZeros(_)
StripZeros(ds) == IF ds # <<>> /\ Head(ds) = 0 THEN StripZeros(Tail(ds)) ELSE ds

\* The wide integer of a small non-negative machine integer.
RECURSIVE Digits(_)
Digits(n) == IF n = 0 THEN <<>> ELSE Append(Digits(n \div 256), n % 256)

Wide(i) == [neg |-> i < 0, mag |-> Digits(IF i < 0 THEN -i ELSE i)]

\* Whether a wide integer fits the machine integers of the checker (31 bits).
Fits(w) == Len(w.mag) <= 3 \/ (Len(w.mag) = 4 /\ w.mag[1] < 128)

RECURSIVE Magnitude(_)
Magnitude(ds) == IF ds = <<>> THEN 0 ELSE 256 * Magnitude(SubSeq(ds, 1, Len(ds) - 1)) + ds[Len(ds)]

ToInt(w) == IF w.neg THEN -Magnitude(w.mag) ELSE Magnitude(w.mag)

\* i < len for a loop index i and a wide non-negative len.
IndexBelow(i, len) == IF Fits(len) THEN i < ToInt(len) ELSE TRUE

\* offset + length > size for a wide non-negative length.
EndExceeds(offset, length, size) == IF Fits(length) THEN offset + ToInt(length) > size ELSE TRUE

(***************************************************************************)
(* Completions and Error objects.  A message (a string built from a       *)
(* template literal) is kept as the template with its interpolated         *)
(* arguments.                                                              *)
(***************************************************************************)
Ok(v) == [threw |-> FALSE, value |-> v]
Throw(e) == [threw |-> TRUE, error |-> e]
Message(text, args) == [t |-> "string", text |-> text, args |-> args]
Error(text) == [name |-> "Error", message |-> Message(text, <<>>)]

(***************************************************************************)
(* utils/decoderUtils.ts: character classes                                *)
(***************************************************************************)
\* ECMAScript WhiteSpace and LineTerminator: String.prototype.trim and \s.
IsWhiteSpace(c) ==
  c \in {9, 10, 11, 12, 13, 32, 160, 5760, 8232, 8233, 8239, 8287, 12288, 65279} \/ c \in 8192..8202

IsDigit(c) == c \in 48..57
IsHexDigit(c) == IsDigit(c) \/ c \in 65..70 \/ c \in 97..102

\* hexRe = /^[0-9a-fA-F]+$/
hexRe(s) == s # <<>> /\ \A i \in 1..Len(s) : IsHexDigit(s[i])

\* base64Re = /^[A-Za-z0-9+/=]+$/
base64Re(s) ==
  s # <<>> /\ \A i \in 1..Len(s) :
     IsDigit(s[i]) \/ s[i] \in 65..90 \/ s[i] \in 97..122 \/ s[i] \in {43, 47, 61}

RECURSIVE trimStart(_)
trimStart(s) == IF s # <<>> /\ IsWhiteSpace(Head(s)) THEN trimStart(Tail(s)) ELSE s

RECURSIVE trimEnd(_)
trimEnd(s) ==
  IF s # <<>> /\ IsWhiteSpace(s[Len(s)]) THEN trimEnd(SubSeq(s, 1, Len(s) - 1)) ELSE s

trim(s) == trimEnd(trimStart(s))

startsWith(s, p) == Len(s) >= Len(p) /\ SubSeq(s, 1, Len(p)) = p
endsWith(s, p) == Len(s) >= Len(p) /\ SubSeq(s, Len(s) - Len(p) + 1, Len(s)) = p
includes(s, p) == \E i \in 1..(Len(s) - Len(p) + 1) : SubSeq(s, i, i + Len(p) - 1) = p

\* str.replace(/^0x/, '').replace(/\s+/g, '')
stripHex(str) ==
  LET noPrefix == IF startsWith(str, <<48, 120>>) THEN SubSeq(str, 3, Len(str)) ELSE str
  IN  SelectSeq(noPrefix, LAMBDA c : ~IsWhiteSpace(c))

\* Mutant: the digits A-F valued as if they were lower case.
HexVal_lowerOnly(c) == IF IsDigit(c) THEN c - 48 ELSE c - 87

\* parseInt of one hex digit.
HexVal(c) == IF IsDigit(c) THEN c - 48 ELSE IF c >= 97 THEN c - 87 ELSE c - 55

(***************************************************************************)
(* parseHex                                                                *)
(***************************************************************************)
\* The for loop of parseHex (lines 17-19): one byte per pair of digits.
RECURSIVE hexPairs(_)
hexPairs(clean) ==
  IF Len(clean) < 2 THEN <<>>
  ELSE <<16 * HexVal(clean[1]) + HexVal(clean[2])>> \o hexPairs(SubSeq(clean, 3, Len(clean)))

parseHex(str) ==
  LET clean == stripHex(str)
  IN  IF Len(clean) % 2 # 0 THEN Throw(Error("Invalid Hex string length"))
      ELSE IF ~hexRe(clean) THEN Throw(Error("Invalid Hex characters"))
      ELSE Ok(hexPairs(clean))

(***************************************************************************)
(* parseBase64: atob is the platform's forgiving-base64 decode.            *)
(***************************************************************************)
IsAsciiWhitespace(c) == c \in {9, 10, 12, 13, 32}
IsBase64Char(c) == IsDigit(c) \/ c \in 65..90 \/ c \in 97..122 \/ c \in {43, 47}

Base64Val(c) ==
  IF c \in 65..90 THEN c - 65
  ELSE IF c \in 97..122 THEN c - 71
  ELSE IF IsDigit(c) THEN c + 4
  ELSE IF c = 43 THEN 62 ELSE 63

RECURSIVE Base64Groups(_)
Base64Groups(d) ==
  IF Len(d) >= 4
  THEN LET g == 262144 * Base64Val(d[1]) + 4096 * Base64Val(d[2])
                + 64 * Base64Val(d[3]) + Base64Val(d[4])
       IN  <<g \div 65536, (g \div 256) % 256, g % 256>> \o Base64Groups(SubSeq(d, 5, Len(d)))
  ELSE IF Len(d) = 3
  THEN LET g == 4096 * Base64Val(d[1]) + 64 * Base64Val(d[2]) + Base64Val(d[3])
       IN  <<g \div 1024, (g \div 4) % 256>>
  ELSE IF Len(d) = 2
  THEN <<(64 * Base64Val(d[1]) + Base64Val(d[2])) \div 16>>
  ELSE <<>>

atob(str) ==
  LET data == SelectSeq(str, LAMBDA c : ~IsAsciiWhitespace(c))
      n == Len(data)
      body == IF n > 0 /\ n % 4 = 0 /\ data[n] = 61
              THEN IF data[n - 1] = 61 THEN SubSeq(data, 1, n - 2) ELSE SubSeq(data, 1, n - 1)
              ELSE data
  IN  IF Len(body) % 4 = 1 \/ \E i \in 1..Len(body) : ~IsBase64Char(body[i])
      THEN Throw([name |-> "InvalidCharacterError",
                  message |-> Message("The string to be decoded is not correctly encoded.", <<>>)])
      ELSE Ok(Base64Groups(body))

parseBase64(str) ==
  LET binaryString == atob(str)
  IN  IF binaryString.threw THEN Throw(Error("Invalid Base64 string"))
      ELSE Ok(binaryString.value)

(***************************************************************************)
(* parsePythonBytes                                                        *)
(***************************************************************************)
\* Mutant: slice(2) in both branches, the closing quote is kept.
pythonContent_keepsQuote(str) ==
  LET content == trim(str)
  IN  IF startsWith(content, <<98, 39>>) \/ startsWith(content, <<98, 34>>)
      THEN SubSeq(content, 3, Len(content))
      ELSE content

\* The wrapping b'...' or b"..." stripped (lines 46-55).
pythonContent(str) ==
  LET content == trim(str)
  IN  IF (startsWith(content, <<98, 39>>) /\ endsWith(content, <<39>>))
         \/ (startsWith(content, <<98, 34>>) /\ endsWith(content, <<34>>))
      THEN SubSeq(content, 3, Len(content) - 1)
      ELSE IF startsWith(content, <<98, 39>>) \/ startsWith(content, <<98, 34>>)
      THEN SubSeq(content, 3, Len(content))
      ELSE content

\* Mutant: an unknown escape pushes the backslash (char) instead of next.
escapeByte_pushesBackslash(next) ==
  CASE next = 110 -> 10
    [] next = 114 -> 13
    [] next = 116 -> 9
    [] next = 92 -> 92
    [] next = 34 -> 34
    [] next = 39 -> 39
    [] next = 48 -> 0
    [] OTHER -> 92

\* The byte of a standard escape \c (lines 86-97).
escapeByte(next) ==
  CASE next = 110 -> 10
    [] next = 114 -> 13
    [] next = 116 -> 9
    [] next = 92 -> 92
    [] next = 34 -> 34
    [] next = 39 -> 39
    [] next = 48 -> 0
    [] OTHER -> next

\* The while loop (lines 59-104): i is the 0-based scan index.
RECURSIVE pythonScan(_, _, _)
pythonScan(content, i, bytes) ==
  IF ~(i < Len(content)) THEN bytes
  ELSE LET char == content[i + 1]
       IN  IF char = 92
           THEN IF i + 1 >= Len(content) THEN Append(bytes, 92)
                ELSE LET next == content[i + 2]
                     IN  IF next = 120
                         THEN IF i + 3 < Len(content)
                                 /\ IsHexDigit(content[i + 3]) /\ IsHexDigit(content[i + 4])
                              THEN pythonScan(content, i + 4,
                                     Append(bytes, 16 * HexVal(content[i + 3]) + HexVal(content[i + 4])))
                              ELSE pythonScan(content, i + 2, bytes \o <<92, 120>>)
                         ELSE pythonScan(content, i + 2, Append(bytes, escapeByte(next)))
           ELSE pythonScan(content, i + 1, Append(bytes, char))

\* new Uint8Array(bytes) stores each number modulo 256.
RECURSIVE toUint8(_)
toUint8(numbers) ==
  IF numbers = <<>> THEN <<>> ELSE <<Head(numbers) % 256>> \o toUint8(Tail(numbers))

parsePythonBytes(str) == Ok(toUint8(pythonScan(pythonContent(str), 0, <<>>)))

(***************************************************************************)
(* autoDetectAndDecode.  The completion also carries the errors array the  *)
(* function accumulates (a local that the thrown Error does not include).  *)
(***************************************************************************)
pythonCandidate(clean) == startsWith(clean, <<98, 39>>) \/ startsWith(clean, <<98, 34>>)

\* Mutant: hex is tried only when the text is not of base64 shape.
hexCandidate_afterBase64(clean) ==
  LET hexClean == stripHex(clean)
  IN  /\ Len(hexClean) > 0 /\ Len(hexClean) % 2 = 0 /\ hexRe(hexClean)
      /\ ~(Len(clean) % 4 = 0 /\ base64Re(clean) /\ ~includes(clean, <<32>>))

hexCandidate(clean) ==
  LET hexClean == stripHex(clean)
  IN  Len(hexClean) > 0 /\ Len(hexClean) % 2 = 0 /\ hexRe(hexClean)

base64Candidate(clean) == Len(clean) % 4 = 0 /\ base64Re(clean) /\ ~includes(clean, <<32>>)

fallbackCandidate(clean) == includes(clean, <<92, 120>>)

\* Mutant: every branch returns format: InputFormat.HEX (a copied return statement).
attempt_alwaysHex(recovered, format, label, errors) ==
  IF recovered.threw
  THEN [threw |-> TRUE, errors |-> Append(errors, [label |-> label, cause |-> recovered.error])]
  ELSE [threw |-> FALSE, value |-> [bytes |-> recovered.value, format |-> HEX], errors |-> errors]

\* One try { return { bytes, format } } catch (e) { errors.push(label + e) }.
attempt(recovered, format, label, errors) ==
  IF recovered.threw
  THEN [threw |-> TRUE, errors |-> Append(errors, [label |-> label, cause |-> recovered.error])]
  ELSE [threw |-> FALSE, value |-> [bytes |-> recovered.value, format |-> format], errors |-> errors]

autoDetectAndDecode(input) ==
  LET clean == trim(input)
      a1 == IF pythonCandidate(clean)
            THEN attempt(parsePythonBytes(clean), PYTHON, "Python: ", <<>>)
            ELSE [threw |-> TRUE, errors |-> <<>>]
      a2 == IF hexCandidate(clean)
            THEN attempt(parseHex(clean), HEX, "Hex: ", a1.errors)
            ELSE [threw |-> TRUE, errors |-> a1.errors]
      a3 == IF base64Candidate(clean)
            THEN attempt(parseBase64(clean), BASE64, "Base64: ", a2.errors)
            ELSE [threw |-> TRUE, errors |-> a2.errors]
      a4 == IF fallbackCandidate(clean)
            THEN attempt(parsePythonBytes(clean), PYTHON, "PythonFallback: ", a3.errors)
            ELSE [threw |-> TRUE, errors |-> a3.errors]
  IN  IF ~a1.threw THEN a1
      ELSE IF ~a2.threw THEN a2
      ELSE IF ~a3.threw THEN a3
      ELSE IF ~a4.threw THEN a4
      ELSE [threw |-> TRUE, errors |-> a4.errors,
            error |-> Error("Could not auto-detect format. Please select one manually.")]

(***************************************************************************)
(* services/msgpackService.ts: MsgpackParser                               *)
(*                                                                         *)
(* The parser's fields are threaded through the operators: offset is       *)
(* this.offset and counter the module-level nodeIdCounter.  A completion   *)
(* of the parser carries both as they stand when it returns or throws.     *)
(***************************************************************************)
Returned(v, offset, counter) ==
  [threw |-> FALSE, value |-> v, offset |-> offset, counter |-> counter]
Thrown(e, offset, counter) ==
  [threw |-> TRUE, error |-> e, offset |-> offset, counter |-> counter]

\* TextDecoder().decode: the platform's UTF-8 decoder with replacement,
\* producing UTF-16 code units; k is the 1-based index of the next byte.
codeUnits(cp) ==
  IF cp < 65536 THEN <<cp>>
  ELSE <<55296 + ((cp - 65536) \div 1024), 56320 + ((cp - 65536) % 1024)>>

RECURSIVE utf8Decode(_, _, _, _, _, _, _)
utf8Decode(bytes, k, cp, seen, needed, lower, upper) ==
  IF k > Len(bytes) THEN (IF needed # 0 THEN <<65533>> ELSE <<>>)
  ELSE LET b == bytes[k]
       IN  IF needed = 0
           THEN IF b <= 127 THEN <<b>> \o utf8Decode(bytes, k + 1, 0, 0, 0, 128, 191)
                ELSE IF b \in 194..223 THEN utf8Decode(bytes, k + 1, b % 32, 0, 1, 128, 191)
                ELSE IF b \in 224..239
                THEN utf8Decode(bytes, k + 1, b % 16, 0, 2,
                                IF b = 224 THEN 160 ELSE 128, IF b = 237 THEN 159 ELSE 191)
                ELSE IF b \in 240..244
                THEN utf8Decode(bytes, k + 1, b % 8, 0, 3,
                                IF b = 240 THEN 144 ELSE 128, IF b = 244 THEN 143 ELSE 191)
                ELSE <<65533>> \o utf8Decode(bytes, k + 1, 0, 0, 0, 128, 191)
           ELSE IF b < lower \/ b > upper
           THEN <<65533>> \o utf8Decode(bytes, k, 0, 0, 0, 128, 191)
           ELSE IF seen + 1 = needed
           THEN codeUnits(64 * cp + (b % 64)) \o utf8Decode(bytes, k + 1, 0, 0, 0, 128, 191)
           ELSE utf8Decode(bytes, k + 1, 64 * cp + (b % 64), seen + 1, needed, 128, 191)

TextDecoder_decode(bytes) ==
  LET units == utf8Decode(bytes, 1, 0, 0, 0, 128, 191)
  IN  IF units # <<>> /\ Head(units) = 65279 THEN Tail(units) ELSE units

\* A DataView read of n bytes at offset: a RangeError when it leaves the view.
viewBytes(buffer, offset, n) ==
  IF offset + n > Len(buffer)
  THEN Throw([name |-> "RangeError",
              message |-> Message("Offset is outside the bounds of the DataView", <<>>)])
  ELSE Ok(SubSeq(buffer, offset + 1, offset + n))

\* Two's complement negation of a byte string: the magnitude of a negative value.
RECURSIVE addOne(_)
addOne(ds) ==
  IF ds = <<>> THEN <<>>
  ELSE IF ds[Len(ds)] = 255 THEN Append(addOne(SubSeq(ds, 1, Len(ds) - 1)), 0)
  ELSE Append(SubSeq(ds, 1, Len(ds) - 1), ds[Len(ds)] + 1)

RECURSIVE complement(_)
complement(ds) == IF ds = <<>> THEN <<>> ELSE <<255 - Head(ds)>> \o complement(Tail(ds))

RECURSIVE Reverse(_)
Reverse(ds) == IF ds = <<>> THEN <<>> ELSE Append(Reverse(Tail(ds)), Head(ds))

\* Mutant: the littleEndian flag passed as true.
getUint_littleEndian(buffer, offset, n) ==
  LET r == viewBytes(buffer, offset, n)
  IN  IF r.threw THEN r ELSE Ok([neg |-> FALSE, mag |-> StripZeros(Reverse(r.value))])

\* view.getUint8 / getUint16 / getUint32 / getBigUint64 (offset, false): big-endian.
getUint(buffer, offset, n) ==
  LET r == viewBytes(buffer, offset, n)
  IN  IF r.threw THEN r ELSE Ok([neg |-> FALSE, mag |-> StripZeros(r.value)])

\* view.getInt8 / getInt16 / getInt32 / getBigInt64 (offset, false).
getInt(buffer, offset, n) ==
  LET r == viewBytes(buffer, offset, n)
  IN  IF r.threw THEN r
      ELSE IF r.value[1] >= 128
      THEN Ok([neg |-> TRUE, mag |-> StripZeros(addOne(complement(r.value)))])
      ELSE Ok([neg |-> FALSE, mag |-> StripZeros(r.value)])

readString(buffer, offset, length) ==
  IF EndExceeds(offset, length, Len(buffer))
  THEN Throw(Error("Unexpected end of input (String)"))
  ELSE LET end == offset + ToInt(length)
       IN  Ok([value |-> TextDecoder_decode(SubSeq(buffer, offset + 1, end)), offset |-> end])

\* Mutant: no bounds check; slice() returns the bytes there are.
readBin_unchecked(buffer, offset, length) ==
  LET end == IF Fits(length) THEN offset + ToInt(length) ELSE Len(buffer) + 1
      last == IF end > Len(buffer) THEN Len(buffer) ELSE end
  IN  Ok([value |-> SubSeq(buffer, offset + 1, last), offset |-> end])

readBin(buffer, offset, length) ==
  IF EndExceeds(offset, length, Len(buffer))
  THEN Throw(Error("Unexpected end of input (Binary)"))
  ELSE LET end == offset + ToInt(length)
       IN  Ok([value |-> SubSeq(buffer, offset + 1, end), offset |-> end])

IsPrimitiveKey(type) == type \in {T_STRING, T_INTEGER, T_BOOLEAN, T_FLOAT, T_NULL}

getKey(k) == IF IsPrimitiveKey(k.type) THEN k.value ELSE k

\* The node literal of parse (lines 54-59); id is the n of `node-${n}`.
NewNode(id, key) ==
  [t |-> "node", id |-> id, type |-> T_UNKNOWN, value |-> Null, key |-> key,
   rawType |-> Undefined, children |-> Undefined, byteLength |-> Undefined,
   meta |-> Undefined]

\* Mutant: the cursor, already past the tag, reported as the tag's offset.
unknownByte_cursor(byte, offset) ==
  [name |-> "Error", message |-> Message("Unknown byte 0x%x at offset %d", <<byte, offset>>)]

\* The default case: the tag byte was read, so it sits at this.offset - 1.
unknownByte(byte, offset) ==
  [name |-> "Error", message |-> Message("Unknown byte 0x%x at offset %d", <<byte, offset - 1>>)]

readExt(buffer, offset, counter, length, rawTypeLabel) ==
  LET type == getInt(buffer, offset, 1)
  IN  IF type.threw THEN Thrown(type.error, offset, counter)
      ELSE LET data == readBin(buffer, offset + 1, length)
           IN  IF data.threw THEN Thrown(data.error, offset + 1, counter)
               ELSE Returned([t |-> "node", id |-> counter, type |-> T_EXTENSION,
                              value |-> Uint8Array(data.value.value), key |-> Undefined,
                              rawType |-> Message(rawTypeLabel, <<>>), children |-> Undefined,
                              byteLength |-> Number(length),
                              meta |-> [type |-> Number(type.value)]],
                             data.value.offset, counter + 1)

\* Mutant: the cursor advanced by the width before the read is attempted.
scalar_advancesFirst(buffer, offset, counter, node, read, type, value, rawType, n) ==
  IF read.threw THEN Thrown(read.error, offset + n, counter)
  ELSE Returned([node EXCEPT !.type = type, !.rawType = Message(rawType, <<>>),
                             !.value = value],
                offset + n, counter)

\* Integer and float scalars (0xca-0xd3): read, then advance by the width.
scalar(buffer, offset, counter, node, read, type, value, rawType, n) ==
  IF read.threw THEN Thrown(read.error, offset, counter)
  ELSE Returned([node EXCEPT !.type = type, !.rawType = Message(rawType, <<>>),
                             !.value = value],
                offset + n, counter)

\* bin 8/16/32 (n: width of the length prefix).
bin(buffer, offset, counter, node, n, rawType) ==
  LET len == getUint(buffer, offset, n)
  IN  IF len.threw THEN Thrown(len.error, offset, counter)
      ELSE LET data == readBin(buffer, offset + n, len.value)
           IN  IF data.threw THEN Thrown(data.error, offset + n, counter)
               ELSE Returned([node EXCEPT !.type = T_BINARY,
                                          !.rawType = Message(rawType, <<len.value>>),
                                          !.value = Uint8Array(data.value.value),
                                          !.byteLength = Number(len.value)],
                             data.value.offset, counter)

\* fixstr (n = 0, the length is in the tag) and str 8/16/32.
str(buffer, offset, counter, node, length, rawType) ==
  LET data == readString(buffer, offset, length)
  IN  IF data.threw THEN Thrown(data.error, offset, counter)
      ELSE Returned([node EXCEPT !.type = T_STRING,
                                 !.rawType = Message(rawType, <<length>>),
                                 !.value = Str(data.value.value),
                                 !.byteLength = Number(length)],
                    data.value.offset, counter)

container(node, type, rawType, length) ==
  [node EXCEPT !.type = type, !.rawType = Message(rawType, <<length>>),
               !.children = Array(<<>>), !.byteLength = Number(length)]

\* Mutant: children.unshift(child), the newest child first.
push_unshift(node, child) == [node EXCEPT !.children.v = <<child>> \o @]

push(node, child) == [node EXCEPT !.children.v = Append(@, child)]

RECURSIVE parse(_, _, _, _)
RECURSIVE arrayItems(_, _, _, _, _, _)
RECURSIVE mapEntries(_, _, _, _, _, _)

\* for (let i = 0; i < length; i++) node.children.push(this.parse(undefined))
arrayItems(buffer, offset, counter, node, length, i) ==
  IF ~IndexBelow(i, length) THEN Returned(node, offset, counter)
  ELSE LET v == parse(buffer, offset, counter, Undefined)
       IN  IF v.threw THEN v
           ELSE arrayItems(buffer, v.offset, v.counter, push(node, v.value), length, i + 1)

\* for (...) { k = parse(undefined); keyVal = getKey(k); v = parse(keyVal); push(v) }
mapEntries(buffer, offset, counter, node, length, i) ==
  IF ~IndexBelow(i, length) THEN Returned(node, offset, counter)
  ELSE LET k == parse(buffer, offset, counter, Undefined)
       IN  IF k.threw THEN k
           ELSE LET v == parse(buffer, k.offset, k.counter, getKey(k.value))
                IN  IF v.threw THEN v
                    ELSE mapEntries(buffer, v.offset, v.counter, push(node, v.value),
                                    length, i + 1)

\* A length-prefixed family member: the prefix is read, the cursor advanced past
\* it, then the body is decoded.
prefixed(buffer, offset, counter, n, Body(_, _)) ==
  LET len == getUint(buffer, offset, n)
  IN  IF len.threw THEN Thrown(len.error, offset, counter) ELSE Body(len.value, offset + n)

parse(buffer, offset0, counter0, key) ==
  IF offset0 >= Len(buffer) THEN Thrown(Error("Unexpected end of input"), offset0, counter0)
  ELSE
    LET byte == buffer[offset0 + 1]
        offset == offset0 + 1
        node == NewNode(counter0, key)
        counter == counter0 + 1
        uintCase(n, rawType, Box(_)) ==
          LET r == getUint(buffer, offset, n)
          IN  scalar(buffer, offset, counter, node, r, T_INTEGER,
                     IF r.threw THEN Null ELSE Box(r.value), rawType, n)
        intCase(n, rawType, Box(_)) ==
          LET r == getInt(buffer, offset, n)
          IN  scalar(buffer, offset, counter, node, r, T_INTEGER,
                     IF r.threw THEN Null ELSE Box(r.value), rawType, n)
        floatCase(n, rawType) ==
          LET r == viewBytes(buffer, offset, n)
          IN  scalar(buffer, offset, counter, node, r, T_FLOAT,
                     IF r.threw THEN Null ELSE Float(8 * n, r.value), rawType, n)
        extCase(n, rawType) ==
          prefixed(buffer, offset, counter, n,
                   LAMBDA len, o : readExt(buffer, o, counter, len, rawType))
        strCase(n, rawType) ==
          prefixed(buffer, offset, counter, n,
                   LAMBDA len, o : str(buffer, o, counter, node, len, rawType))
        arrCase(n, rawType) ==
          prefixed(buffer, offset, counter, n,
                   LAMBDA len, o : arrayItems(buffer, o, counter,
                                              container(node, T_ARRAY, rawType, len), len, 0))
        mapCase(n, rawType) ==
          prefixed(buffer, offset, counter, n,
                   LAMBDA len, o : mapEntries(buffer, o, counter,
                                              container(node, T_MAP, rawType, len), len, 0))
    IN  CASE byte <= 127 ->
               Returned([node EXCEPT !.type = T_INTEGER, !.rawType = Message("fixint", <<>>),
                                     !.value = Number(Wide(byte))], offset, counter)
          [] byte >= 224 ->
               Returned([node EXCEPT !.type = T_INTEGER, !.rawType = Message("fixint", <<>>),
                                     !.value = Number(Wide(byte - 256))], offset, counter)
          [] byte \in 128..143 ->
               mapEntries(buffer, offset, counter,
                          container(node, T_MAP, "map(%d)", Wide(byte % 16)), Wide(byte % 16), 0)
          [] byte \in 144..159 ->
               arrayItems(buffer, offset, counter,
                          container(node, T_ARRAY, "arr(%d)", Wide(byte % 16)), Wide(byte % 16), 0)
          [] byte \in 160..191 ->
               str(buffer, offset, counter, node, Wide(byte % 32), "str(%d)")
          [] byte = 192 ->
               Returned([node EXCEPT !.type = T_NULL, !.rawType = Message("nil", <<>>),
                                     !.value = Null], offset, counter)
          [] byte = 194 ->
               Returned([node EXCEPT !.type = T_BOOLEAN, !.rawType = Message("false", <<>>),
                                     !.value = Bool(FALSE)], offset, counter)
          [] byte = 195 ->
               Returned([node EXCEPT !.type = T_BOOLEAN, !.rawType = Message("true", <<>>),
                                     !.value = Bool(TRUE)], offset, counter)
          [] byte = 196 -> bin(buffer, offset, counter, node, 1, "bin8(%d)")
          [] byte = 197 -> bin(buffer, offset, counter, node, 2, "bin16(%d)")
          [] byte = 198 -> bin(buffer, offset, counter, node, 4, "bin32(%d)")
          [] byte = 202 -> floatCase(4, "float(32)")
          [] byte = 203 -> floatCase(8, "float(64)")
          [] byte = 204 -> uintCase(1, "uint(8)", Number)
          [] byte = 205 -> uintCase(2, "uint(16)", Number)
          [] byte = 206 -> uintCase(4, "uint(32)", Number)
          [] byte = 207 -> uintCase(8, "uint(64)", BigInt)
          [] byte = 208 -> intCase(1, "int(8)", Number)
          [] byte = 209 -> intCase(2, "int(16)", Number)
          [] byte = 210 -> intCase(4, "int(32)", Number)
          [] byte = 211 -> intCase(8, "int(64)", BigInt)
          [] byte = 212 -> readExt(buffer, offset, counter, Wide(1), "fixext1")
          [] byte = 213 -> readExt(buffer, offset, counter, Wide(2), "fixext2")
          [] byte = 214 -> readExt(buffer, offset, counter, Wide(4), "fixext4")
          [] byte = 215 -> readExt(buffer, offset, counter, Wide(8), "fixext8")
          [] byte = 216 -> readExt(buffer, offset, counter, Wide(16), "fixext16")
          [] byte = 199 -> extCase(1, "ext8")
          [] byte = 200 -> extCase(2, "ext16")
          [] byte = 201 -> extCase(4, "ext32")
          [] byte = 217 -> strCase(1, "str8(%d)")
          [] byte = 218 -> strCase(2, "str16(%d)")
          [] byte = 219 -> strCase(4, "str32(%d)")
          [] byte = 220 -> arrCase(2, "arr16(%d)")
          [] byte = 221 -> arrCase(4, "arr32(%d)")
          [] byte = 222 -> mapCase(2, "map16(%d)")
          [] byte = 223 -> mapCase(4, "map32(%d)")
          [] OTHER -> Thrown(unknownByte(byte, offset), offset, counter)

(***************************************************************************)
(* parseMsgpack                                                            *)
(***************************************************************************)
\* Lines 384-395: the bytes and the detected format, or the recovery's throw.
\* errors is autoDetectAndDecode's local array, empty for a pinned format.
recover(input, format) ==
  LET pinned(r) == IF r.threw THEN [threw |-> TRUE, error |-> r.error, errors |-> <<>>]
                   ELSE [threw |-> FALSE, value |-> [bytes |-> r.value, format |-> format],
                         errors |-> <<>>]
  IN  CASE format = AUTO -> autoDetectAndDecode(input)
        [] format = HEX -> pinned(parseHex(input))
        [] format = BASE64 -> pinned(parseBase64(input))
        [] format = PYTHON -> pinned(parsePythonBytes(input))
        [] OTHER -> pinned(Throw(Error("Unknown format")))

\* A ParseResult; an absent property is Undefined.
Failure(error) ==
  [success |-> FALSE, data |-> Undefined, error |-> error, detectedFormat |-> Undefined,
   originalBytes |-> Undefined]
Success(rootNode, detected, bytes) ==
  [success |-> TRUE, data |-> rootNode, error |-> Undefined,
   detectedFormat |-> Enum(detected), originalBytes |-> Uint8Array(bytes)]

\* What a call leaves behind besides its completion: the locals bytes and
\* detected, the detector's errors, the parser (Undefined when none was
\* constructed, else its buffer and the cursor where it stopped) and nodeIdCounter.
left(bytes, detected, errors, parser, counter) ==
  [bytes |-> bytes, detected |-> detected, errors |-> errors, parser |-> parser,
   counter |-> counter]

\* Mutant: a decode that stops before the end of the buffer is an error.
afterParse_requiresEnd(rootNode, rec) ==
  LET state == left(Uint8Array(rec.value.bytes), rec.value.format, rec.errors,
                    [t |-> "MsgpackParser", buffer |-> rec.value.bytes,
                     offset |-> rootNode.offset],
                    rootNode.counter)
  IN  IF rootNode.threw
      THEN [threw |-> TRUE, error |-> rootNode.error, state |-> state]
      ELSE IF rootNode.offset < Len(rec.value.bytes)
      THEN [threw |-> TRUE, error |-> Error("Trailing bytes"), state |-> state]
      ELSE [threw |-> FALSE, state |-> state,
            value |-> Success(rootNode.value, rec.value.format, rec.value.bytes)]

\* Lines 399-407: the parser ran on bytes; rootNode is the completion of parser.parse().
afterParse(rootNode, rec) ==
  LET state == left(Uint8Array(rec.value.bytes), rec.value.format, rec.errors,
                    [t |-> "MsgpackParser", buffer |-> rec.value.bytes,
                     offset |-> rootNode.offset],
                    rootNode.counter)
  IN  IF rootNode.threw
      THEN [threw |-> TRUE, error |-> rootNode.error, state |-> state]
      ELSE [threw |-> FALSE, state |-> state,
            value |-> Success(rootNode.value, rec.value.format, rec.value.bytes)]

\* Lines 386-407: rec is the completion of the byte recovery.
afterRecover(rec, format) ==
  IF rec.threw
  THEN [threw |-> TRUE, error |-> rec.error,
        state |-> left(Undefined, format, rec.errors, Undefined, 0)]
  ELSE IF Len(rec.value.bytes) = 0
  THEN [threw |-> FALSE, value |-> Failure(Message("Empty input", <<>>)),
        state |-> left(Uint8Array(rec.value.bytes), rec.value.format, rec.errors,
                       Undefined, 0)]
  ELSE afterParse(parse(rec.value.bytes, 0, 0, Undefined), rec)

\* The try block (lines 380-408), entered with nodeIdCounter = 0.
tryBlock(input, format) == afterRecover(recover(input, format), format)

\* Mutant: no try/catch around the body, a throw escapes parseMsgpack.
catch_rethrows(body) == body

\* catch (e) { return { success: false, error: e.message || "Failed to parse Msgpack" } }
catch(body) ==
  IF body.threw
  THEN [threw |-> FALSE, state |-> body.state,
        value |-> Failure(IF body.error.message.text = ""
                          THEN Message("Failed to parse Msgpack", <<>>)
                          ELSE body.error.message)]
  ELSE body

parseMsgpack(input, format) == catch(tryBlock(input, format))

(***************************************************************************)
(* utils/decoderUtils.ts: serializeNode, with the platform functions it    *)
(* calls.  A plain object is [t |-> "object", v |-> entries], its entries  *)
(* <<key, value>> records in property order: array-index keys ascending,   *)
(* then the other keys in the order they were first set.                   *)
(***************************************************************************)
Object(entries) == [t |-> "object", v |-> entries]

\* The text of a short ASCII literal ("null", "true", ...), as code units.
Lit(word) ==
  CASE word = "null" -> <<110, 117, 108, 108>>
    [] word = "true" -> <<116, 114, 117, 101>>
    [] word = "false" -> <<102, 97, 108, 115, 101>>
    [] word = "undefined" -> <<117, 110, 100, 101, 102, 105, 110, 101, 100>>
    [] word = "NaN" -> <<78, 97, 78>>
    [] word = "Infinity" -> <<73, 110, 102, 105, 110, 105, 116, 121>>
    [] word = "__ext_type" -> <<95, 95, 101, 120, 116, 95, 116, 121, 112, 101>>
    [] word = "data" -> <<100, 97, 116, 97>>

\* btoa: the base64 text of a byte string, padded with '='.
Base64Char(v) ==
  IF v < 26 THEN 65 + v
  ELSE IF v < 52 THEN 71 + v
  ELSE IF v < 62 THEN v - 4
  ELSE IF v = 62 THEN 43 ELSE 47

RECURSIVE btoa(_)
btoa(b) ==
  IF Len(b) >= 3
  THEN <<Base64Char(b[1] \div 4), Base64Char((b[1] % 4) * 16 + b[2] \div 16),
         Base64Char((b[2] % 16) * 4 + b[3] \div 64), Base64Char(b[3] % 64)>>
       \o btoa(SubSeq(b, 4, Len(b)))
  ELSE IF Len(b) = 2
  THEN <<Base64Char(b[1] \div 4), Base64Char((b[1] % 4) * 16 + b[2] \div 16),
         Base64Char((b[2] % 16) * 4), 61>>
  ELSE IF Len(b) = 1
  THEN <<Base64Char(b[1] \div 4), Base64Char((b[1] % 4) * 16), 61, 61>>
  ELSE <<>>

\* String.fromCharCode per byte, then btoa (lines 36-43).
bytesToBase64(bytes) == btoa(bytes)

\* The decimal digits of a wide magnitude: long division by ten.
RECURSIVE LongDiv10(_, _, _)
LongDiv10(ds, rem, acc) ==
  IF ds = <<>> THEN [quot |-> StripZeros(acc), rem |-> rem]
  ELSE LongDiv10(Tail(ds), (rem * 256 + Head(ds)) % 10,
                 Append(acc, (rem * 256 + Head(ds)) \div 10))

RECURSIVE DecimalDigits(_)
DecimalDigits(mag) ==
  IF mag = <<>> THEN <<>>
  ELSE Append(DecimalDigits(LongDiv10(mag, 0, <<>>).quot), 48 + LongDiv10(mag, 0, <<>>).rem)

\* Number::toString and BigInt::toString of an integer.
IntegerToString(w) ==
  IF w.mag = <<>> THEN <<48>>
  ELSE (IF w.neg THEN <<45>> ELSE <<>>) \o DecimalDigits(w.mag)

RECURSIVE Power(_, _)
Power(b, n) == IF n = 0 THEN 1 ELSE b * Power(b, n - 1)

RECURSIVE PadZeros(_, _)
PadZeros(s, n) == IF Len(s) >= n THEN s ELSE PadZeros(<<48>> \o s, n)

\* An IEEE value as sign, biased exponent field, fraction field and their widths.
\* Of a double only the leading 20 fraction bits are kept: low says whether the
\* other 32 are all zero.
Ieee(f) ==
  LET b == f.bits
  IN  IF f.ieee = 32
      THEN [neg |-> b[1] >= 128, exp |-> (b[1] % 128) * 2 + b[2] \div 128,
            frac |-> (b[2] % 128) * 65536 + b[3] * 256 + b[4],
            low |-> TRUE, bits |-> 23, bias |-> 127, top |-> 255]
      ELSE [neg |-> b[1] >= 128, exp |-> (b[1] % 128) * 16 + b[2] \div 16,
            frac |-> (b[2] % 16) * 65536 + b[3] * 256 + b[4],
            low |-> SubSeq(b, 5, 8) = <<0, 0, 0, 0>>, bits |-> 20, bias |-> 1023,
            top |-> 2047]

\* m * 2^e with m odd (or zero).
RECURSIVE Odd(_, _)
Odd(m, e) == IF m = 0 \/ m % 2 = 1 THEN [m |-> m, e |-> e] ELSE Odd(m \div 2, e + 1)

IsFinite(f) == Ieee(f).exp # Ieee(f).top

\* Number::toString of a float.  The shortest round-trip decimal is computed for
\* the values whose exact decimal expansion is that text: zeros, integers below
\* 2^31 and binary fractions of at most 8 places with at most 15 significant
\* digits; NaN and the infinities are named.  No other float is given a text.
FloatToString(f) ==
  LET x == Ieee(f)
      v == Odd(Power(2, x.bits) + x.frac, x.exp - x.bias - x.bits)
      k == 0 - v.e
      sign == IF x.neg THEN <<45>> ELSE <<>>
  IN  CASE x.exp = x.top /\ x.frac = 0 /\ x.low -> sign \o Lit("Infinity")
        [] x.exp = x.top /\ ~(x.frac = 0 /\ x.low) -> Lit("NaN")
        [] x.exp = 0 /\ x.frac = 0 /\ x.low -> <<48>>
        [] x.exp \in 1..(x.top - 1) /\ x.low /\ v.e \in 0..6 ->
             sign \o IntegerToString(Wide(v.m * Power(2, v.e)))
        [] x.exp \in 1..(x.top - 1) /\ x.low /\ k \in 1..8 /\ v.m \div Power(2, k) < 1048576 ->
             sign \o IntegerToString(Wide(v.m \div Power(2, k))) \o <<46>>
                  \o PadZeros(IntegerToString(Wide((v.m % Power(2, k)) * Power(5, k))), k)

IsFloat(x) == x.t = "number" /\ "ieee" \in DOMAIN x.v

NumberToString(x) == IF IsFloat(x) THEN FloatToString(x.v) ELSE IntegerToString(x.v)

\* The four lower-case hex digits of a code unit (\uXXXX).
HexDigitChar(d) == IF d < 10 THEN 48 + d ELSE 87 + d
Hex4(c) ==
  <<HexDigitChar(c \div 4096), HexDigitChar((c \div 256) % 16), HexDigitChar((c \div 16) % 16),
    HexDigitChar(c % 16)>>

\* JSON QuoteJSONString, from the code unit at i on.
RECURSIVE QuoteFrom(_, _)
QuoteFrom(s, i) ==
  IF i > Len(s) THEN <<>>
  ELSE LET c == s[i]
       IN  CASE c = 34 -> <<92, 34>> \o QuoteFrom(s, i + 1)
             [] c = 92 -> <<92, 92>> \o QuoteFrom(s, i + 1)
             [] c = 8 -> <<92, 98>> \o QuoteFrom(s, i + 1)
             [] c = 9 -> <<92, 116>> \o QuoteFrom(s, i + 1)
             [] c = 10 -> <<92, 110>> \o QuoteFrom(s, i + 1)
             [] c = 12 -> <<92, 102>> \o QuoteFrom(s, i + 1)
             [] c = 13 -> <<92, 114>> \o QuoteFrom(s, i + 1)
             [] c < 32 /\ c \notin {8, 9, 10, 12, 13} -> <<92, 117>> \o Hex4(c) \o QuoteFrom(s, i + 1)
             [] c \in 55296..56319 /\ i < Len(s) /\ s[i + 1] \in 56320..57343 ->
                  <<c, s[i + 1]>> \o QuoteFrom(s, i + 2)
             [] c \in 55296..56319 /\ ~(i < Len(s) /\ s[i + 1] \in 56320..57343) ->
                  <<92, 117>> \o Hex4(c) \o QuoteFrom(s, i + 1)
             [] c \in 56320..57343 -> <<92, 117>> \o Hex4(c) \o QuoteFrom(s, i + 1)
             [] OTHER -> <<c>> \o QuoteFrom(s, i + 1)

QuoteJSONString(s) == <<34>> \o QuoteFrom(s, 1) \o <<34>>

\* JSON.stringify without indentation: SerializeJSONProperty on a plain value.
\* In an array undefined is written null; in an object an undefined value is left
\* out.  A projection holds no bigint and no typed array.
RECURSIVE SerializeJSONProperty(_)
RECURSIVE SerializeJSONArray(_, _)
RECURSIVE SerializeJSONObject(_, _, _)

SerializeJSONArray(a, i) ==
  IF i > Len(a) THEN <<>>
  ELSE (IF i > 1 THEN <<44>> ELSE <<>>)
       \o (IF a[i].t = "undefined" THEN Lit("null") ELSE SerializeJSONProperty(a[i]))
       \o SerializeJSONArray(a, i + 1)

SerializeJSONObject(entries, i, first) ==
  IF i > Len(entries) THEN <<>>
  ELSE IF entries[i].value.t = "undefined" THEN SerializeJSONObject(entries, i + 1, first)
  ELSE (IF first THEN <<>> ELSE <<44>>)
       \o QuoteJSONString(entries[i].key) \o <<58>> \o SerializeJSONProperty(entries[i].value)
       \o SerializeJSONObject(entries, i + 1, FALSE)

SerializeJSONProperty(value) ==
  CASE value.t = "null" -> Lit("null")
    [] value.t = "boolean" -> IF value.v THEN Lit("true") ELSE Lit("false")
    [] value.t = "string" -> QuoteJSONString(value.v)
    [] value.t = "number" ->
         IF IsFloat(value) /\ ~IsFinite(value.v) THEN Lit("null") ELSE NumberToString(value)
    [] value.t = "array" -> <<91>> \o SerializeJSONArray(value.v, 1) \o <<93>>
    [] value.t = "object" -> <<123>> \o SerializeJSONObject(value.v, 1, TRUE) \o <<125>>

JSON_stringify(value) ==
  IF value.t = "undefined" THEN Undefined ELSE Str(SerializeJSONProperty(value))

\* String(value) of a primitive.
StringOf(value) ==
  CASE value.t = "undefined" -> Lit("undefined")
    [] value.t = "null" -> Lit("null")
    [] value.t = "boolean" -> IF value.v THEN Lit("true") ELSE Lit("false")
    [] value.t = "string" -> value.v
    [] value.t = "number" -> NumberToString(value)
    [] value.t = "bigint" -> IntegerToString(value.v)

\* Whether a property key is an array index: the canonical decimal text of an
\* integer in 0..2^32-2.  Such keys come first in property order, ascending.
RECURSIVE LexLess(_, _)
LexLess(a, b) ==
  a # <<>> /\ (Head(a) < Head(b) \/ (Head(a) = Head(b) /\ LexLess(Tail(a), Tail(b))))

IndexLess(a, b) == Len(a) < Len(b) \/ (Len(a) = Len(b) /\ LexLess(a, b))

IsArrayIndex(key) ==
  /\ key # <<>>
  /\ \A i \in 1..Len(key) : IsDigit(key[i])
  /\ Len(key) = 1 \/ key[1] # 48
  /\ IndexLess(key, <<52, 50, 57, 52, 57, 54, 55, 50, 57, 53>>)

\* obj[key] = value: an own property is overwritten in place, a new one is created.
RECURSIVE Overwrite(_, _, _)
Overwrite(entries, key, value) ==
  IF entries = <<>> THEN <<>>
  ELSE <<IF Head(entries).key = key THEN [key |-> key, value |-> value] ELSE Head(entries)>>
       \o Overwrite(Tail(entries), key, value)

RECURSIVE InsertIndex(_, _, _)
InsertIndex(entries, key, value) ==
  IF entries = <<>> \/ ~IsArrayIndex(Head(entries).key) \/ IndexLess(key, Head(entries).key)
  THEN <<[key |-> key, value |-> value]>> \o entries
  ELSE <<Head(entries)>> \o InsertIndex(Tail(entries), key, value)

ObjectSet(obj, key, value) ==
  IF \E i \in 1..Len(obj.v) : obj.v[i].key = key
  THEN Object(Overwrite(obj.v, key, value))
  ELSE IF IsArrayIndex(key) THEN Object(InsertIndex(obj.v, key, value))
  ELSE Object(Append(obj.v, [key |-> key, value |-> value]))

RECURSIVE serializeNode(_)
RECURSIVE serializeChildren(_, _)
RECURSIVE serializeEntries(_, _, _)

\* Lines 154-162: the property name of a map child.
keyStr(child) ==
  IF child.key.t = "string" THEN child.key.v
  ELSE IF child.key.t = "node"
  THEN LET text == JSON_stringify(serializeNode(child.key))
       IN  IF text.t = "undefined" THEN Lit("undefined") ELSE text.v
  ELSE StringOf(child.key)

\* children.map(serializeNode), from child i on.
serializeChildren(children, i) ==
  IF i > Len(children) THEN <<>>
  ELSE <<serializeNode(children[i])>> \o serializeChildren(children, i + 1)

\* Mutant: a key already present is kept (if (!(keyStr in obj)) obj[keyStr] = ...).
RECURSIVE serializeEntries_firstWins(_, _, _)
serializeEntries_firstWins(children, i, obj) ==
  IF i > Len(children) THEN obj
  ELSE serializeEntries_firstWins(children, i + 1,
         IF \E j \in 1..Len(obj.v) : obj.v[j].key = keyStr(children[i]) THEN obj
         ELSE ObjectSet(obj, keyStr(children[i]), serializeNode(children[i])))

\* children.forEach(child => { obj[keyStr] = serializeNode(child) }), from child i on.
serializeEntries(children, i, obj) ==
  IF i > Len(children) THEN obj
  ELSE serializeEntries(children, i + 1,
                        ObjectSet(obj, keyStr(children[i]), serializeNode(children[i])))

serializeNode(node) ==
  CASE node.type = T_MAP ->
         IF node.children.t = "array" THEN serializeEntries(node.children.v, 1, Object(<<>>))
         ELSE Object(<<>>)
    [] node.type = T_ARRAY ->
         IF node.children.t = "array" THEN Array(serializeChildren(node.children.v, 1))
         ELSE Undefined
    [] node.type = T_BINARY -> Str(bytesToBase64(node.value.v))
    [] node.type = T_INTEGER ->
         IF node.value.t = "bigint" THEN Str(IntegerToString(node.value.v)) ELSE node.value
    [] node.type = T_EXTENSION ->
         Object(<<[key |-> Lit("__ext_type"),
                   value |-> IF "type" \in DOMAIN node.meta THEN node.meta.type ELSE Undefined],
                  [key |-> Lit("data"), value |-> Str(bytesToBase64(node.value.v))]>>)
    [] node.type = T_NULL -> Null
    [] OTHER -> node.value

(***************************************************************************)
(* The requests checked: texts over a small alphabet, and the hexadecimal  *)
(* text of byte buffers chosen to exercise every branch of the decoder.    *)
(***************************************************************************)
MaxTextLen == 4
MaxBufLen == 4
MaxProjections == 2
MaxCalls == 2

SeqsUpTo(S, n) == UNION {[1..k -> S] : k \in 0..n}

\* '0' '8' 'x' 'b' ' \ space '='
TextChars == {48, 56, 120, 98, 39, 92, 32, 61}
SmallTexts == SeqsUpTo(TextChars, MaxTextLen)

RECURSIVE toHexText(_)
toHexText(bytes) ==
  IF bytes = <<>> THEN <<>>
  ELSE <<HexDigitChar(Head(bytes) \div 16), HexDigitChar(Head(bytes) % 16)>>
         \o toHexText(Tail(bytes))

\* fixint 1, fixmap(1), fixarray(1), fixstr(1), the reserved tag, bin8, fixext1
TagBytes == {1, 129, 145, 161, 193, 196, 212}
SmallBuffers == SeqsUpTo(TagBytes, MaxBufLen)

\* Every tag byte alone, inside an array and as a map key.
TagBuffers ==
  {<<b>> : b \in 0..255} \cup {<<145, b>> : b \in 0..255} \cup {<<129, b, 1>> : b \in 0..255}

\* One encoded value of every kind: nil, false, true, fixint, negative fixint,
\* float32, fixstr "k", bin8, empty array, array [1], empty map, fixext1.
Encoded ==
  {<<192>>, <<194>>, <<195>>, <<1>>, <<255>>, <<202, 63, 128, 0, 0>>, <<161, 107>>,
   <<196, 1, 255>>, <<144>>, <<145, 1>>, <<128>>, <<212, 5, 170>>}

\* One-entry maps in the three encodings, every kind as key and as value.
MapHeads == {<<129>>, <<222, 0, 1>>, <<223, 0, 0, 0, 1>>}
MapBuffers == {h \o k \o v : h \in MapHeads, k \in Encoded, v \in Encoded}

\* Integer scalars of every width over boundary bytes; 64-bit payloads are two words.
IntBytes == {0, 1, 127, 128, 255}
Words == {<<0, 0, 0, 0>>, <<0, 0, 0, 1>>, <<127, 255, 255, 255>>, <<128, 0, 0, 0>>,
          <<255, 255, 255, 255>>, <<1, 2, 3, 4>>}
IntBuffers ==
  {<<t>> \o p : t \in {204, 208}, p \in [1..1 -> IntBytes]}
  \cup {<<t>> \o p : t \in {205, 209}, p \in [1..2 -> IntBytes]}
  \cup {<<t>> \o p : t \in {206, 210}, p \in Words}
  \cup {<<t>> \o hi \o lo : t \in {207, 211}, hi \in Words, lo \in Words}

\* Well-formed encodings of every length-carrying family, and all their prefixes.
Framed ==
  {<<165, 104, 101, 108, 108, 111>>, <<217, 2, 104, 105>>, <<218, 0, 2, 104, 105>>,
   <<219, 0, 0, 0, 2, 104, 105>>, <<196, 2, 1, 2>>, <<197, 0, 2, 1, 2>>,
   <<198, 0, 0, 0, 2, 1, 2>>, <<199, 2, 5, 1, 2>>, <<200, 0, 2, 5, 1, 2>>,
   <<201, 0, 0, 0, 2, 5, 1, 2>>, <<212, 5, 1>>, <<213, 5, 1, 2>>, <<214, 5, 1, 2, 3, 4>>,
   <<215, 5, 1, 2, 3, 4, 5, 6, 7, 8>>,
   <<216, 5, 1, 2, 3, 4, 5, 6, 7, 8, 9, 10, 11, 12, 13, 14, 15, 16>>,
   <<202, 63, 128, 0, 0>>, <<203, 63, 240, 0, 0, 0, 0, 0, 0>>,
   <<205, 1, 2>>, <<206, 1, 2, 3, 4>>, <<207, 0, 0, 0, 1, 0, 0, 0, 0>>,
   <<209, 255, 254>>, <<210, 255, 255, 255, 254>>, <<211, 255, 255, 255, 255, 255, 255, 255, 254>>,
   <<220, 0, 2, 1, 2>>, <<221, 0, 0, 0, 2, 1, 2>>, <<222, 0, 1, 1, 2>>,
   <<223, 0, 0, 0, 1, 1, 2>>, <<221, 255, 255, 255, 255, 1>>, <<198, 255, 255, 255, 255, 1>>,
   <<129, 163, 107, 101, 121, 165, 118, 97, 108, 117, 101>>,
   <<130, 1, 212, 5, 170, 145, 1, 199, 1, 5, 170>>}
FramedBuffers == UNION {{SubSeq(b, 1, k) : k \in 0..Len(b)} : b \in Framed}

\* Containers of two and three members: arrays in wire order, maps that repeat a
\* key, and maps whose keys have one text: 1 and "1", 1 and 1.0, nil and "null",
\* the array [1] and "[1]", a bin and the quoted base64 of it, a key-less
\* extension value and "undefined", 2 before 1 before "b".
Members ==
  {<<146, 1, 2>>, <<147, 3, 2, 1>>, <<220, 0, 3, 192, 194, 195>>,
   <<130, 1, 1, 1, 2>>, <<131, 161, 97, 1, 161, 98, 2, 161, 97, 3>>,
   <<222, 0, 2, 192, 1, 192, 2>>, <<223, 0, 0, 0, 2, 161, 107, 144, 161, 107, 128>>,
   <<130, 1, 192, 161, 49, 195>>, <<130, 161, 49, 195, 1, 192>>,
   <<130, 1, 1, 202, 63, 128, 0, 0, 2>>, <<130, 203, 63, 248, 0, 0, 0, 0, 0, 0, 1, 161, 49, 2>>,
   <<130, 192, 1, 164, 110, 117, 108, 108, 2>>, <<130, 194, 1, 195, 2>>,
   <<130, 145, 1, 1, 163, 91, 49, 93, 2>>, <<130, 145, 1, 1, 145, 1, 2>>,
   <<130, 196, 1, 255, 1, 166, 34, 47, 119, 61, 61, 34, 2>>,
   <<130, 1, 212, 5, 170, 169, 117, 110, 100, 101, 102, 105, 110, 101, 100, 2>>,
   <<131, 161, 98, 1, 2, 2, 1, 3>>, <<129, 212, 5, 170, 1>>,
   <<129, 129, 161, 34, 196, 1, 255, 207, 0, 0, 0, 1, 0, 0, 0, 0>>,
   <<130, 207, 0, 0, 0, 1, 0, 0, 0, 0, 1, 170, 52, 50, 57, 52, 57, 54, 55, 50, 57, 54, 2>>,
   <<130, 208, 255, 1, 162, 45, 49, 2>>}

Buffers ==
  SmallBuffers \cup TagBuffers \cup MapBuffers \cup IntBuffers \cup FramedBuffers \cup Members

\* b'\x81\xa3key\xa5value', gaNrZXmldmFsdWU=, b"\x80", '0x 80', a tab, a no-break
\* space, a line break, 0xAB, ab, aB, ' 0x80', '0x80 ', '0 x80', 'x80', 81a3666f6f
SampleTexts ==
  {<<98, 39, 92, 120, 56, 49, 92, 120, 97, 51, 107, 101, 121, 92, 120, 97, 53, 118, 97,
     108, 117, 101, 39>>,
   <<103, 97, 78, 114, 90, 88, 109, 108, 100, 109, 70, 115, 100, 87, 85, 61>>,
   <<98, 34, 92, 120, 56, 48, 34>>, <<48, 120, 32, 56, 48>>, <<9>>, <<160>>, <<10, 13>>,
   <<48, 120, 65, 66>>, <<97, 98>>, <<97, 66>>, <<32, 48, 120, 56, 48>>,
   <<48, 120, 56, 48, 32>>, <<48, 32, 120, 56, 48>>, <<120, 56, 48>>,
   <<56, 49, 97, 51, 54, 54, 54, 102, 54, 102>>}

Texts == SmallTexts \cup {toHexText(b) : b \in Buffers} \cup SampleTexts

(***************************************************************************)
(* The state machine: one request, one call of parseMsgpack.               *)
(***************************************************************************)
VARIABLES
  input,          \* the text of the request
  format,         \* the requested InputFormat
  pc,             \* "idle" before the call, then "returned" or "threw"
  result,         \* the ParseResult returned (Undefined before the call)
  bytes,          \* the local bytes of the call (Undefined until recovered)
  detected,       \* the local detected of the call
  errors,         \* the local errors array of autoDetectAndDecode
  parser,         \* the MsgpackParser of the call: its buffer and final offset
  nodeIdCounter,  \* the module-level counter
  projections,    \* the plain values serializeNode returned for the tree, in call order
  created,        \* the n of every `node-${n}` generateId returned, over all calls, in order
  calls,          \* the number of parseMsgpack calls made
  parsedData,     \* App state: the tree shown (null: none)
  error,          \* App state: the message shown (undefined: none)
  appDetected,    \* App state `detected`: the format shown in the status bar
  timers          \* the pending timeouts of the App, each with the input and format
                  \* its callback closes over

vars ==
  <<input, format, pc, result, bytes, detected, errors, parser, nodeIdCounter, projections,
    created, calls, parsedData, error, appDetected, timers>>

appVars == <<parsedData, error, appDetected, timers>>

Init ==
  /\ input \in Texts
  /\ format \in InputFormat
  /\ pc = "idle"
  /\ result = Undefined
  /\ bytes = Undefined
  /\ detected = format
  /\ errors = <<>>
  /\ parser = Undefined
  /\ nodeIdCounter = 0
  /\ projections = <<>>
  /\ created = <<>>
  /\ calls = 0
  /\ parsedData = Null
  /\ error = Undefined
  /\ appDetected = Undefined
  /\ timers = {}

\* 0, 1, ..., n - 1: what generateId returned while nodeIdCounter went from 0 to n.
RECURSIVE generated(_)
generated(n) == IF n = 0 THEN <<>> ELSE Append(generated(n - 1), n - 1)

\* The state after a call with completion call.
Completes(call) ==
  /\ pc' = IF call.threw THEN "threw" ELSE "returned"
  /\ result' = IF call.threw THEN Undefined ELSE call.value
  /\ bytes' = call.state.bytes
  /\ detected' = call.state.detected
  /\ errors' = call.state.errors
  /\ parser' = call.state.parser
  /\ nodeIdCounter' = call.state.counter
  /\ created' = created \o generated(call.state.counter)
  /\ calls' = calls + 1

ParseMsgpack ==
  /\ pc = "idle"
  /\ Completes(parseMsgpack(input, format))
  /\ UNCHANGED <<input, format, projections>>
  /\ UNCHANGED appVars

\* Array.prototype.reverse(): in place.
RECURSIVE reverse(_)
reverse(a) == IF a = <<>> THEN <<>> ELSE Append(reverse(Tail(a)), Head(a))

\* Mutant: the projection walks node.children.reverse(), which reorders the
\* children of the root in place.
SerializeNode_reversesInPlace ==
  /\ pc = "returned"
  /\ result.success
  /\ Len(projections) < MaxProjections
  /\ result' = [result EXCEPT !.data.children =
                   IF @.t = "array" THEN Array(reverse(@.v)) ELSE @]
  /\ projections' = Append(projections, serializeNode(result'.data))
  /\ UNCHANGED <<input, format, pc, bytes, detected, errors, parser, nodeIdCounter>>
  /\ UNCHANGED <<created, calls>>
  /\ UNCHANGED appVars

\* serializeNode called on the decoded tree (the raw JSON view, a copy button).
SerializeNode ==
  /\ pc = "returned"
  /\ result.success
  /\ Len(projections) < MaxProjections
  /\ projections' = Append(projections, serializeNode(result.data))
  /\ UNCHANGED <<input, format, pc, result, bytes, detected, errors, parser, nodeIdCounter>>
  /\ UNCHANGED <<created, calls>>
  /\ UNCHANGED appVars

Next == ParseMsgpack \/ SerializeNode

Spec == Init /\ [][Next]_vars

(***************************************************************************)
(* App: the input and format states, the debounced parse effect and what   *)
(* it shows.  Every render whose input or format changed runs the effect:  *)
(* its cleanup clears the timeout of the previous run, then a new timeout  *)
(* is set whose callback closes over that render's input and format.       *)
(***************************************************************************)
\* b'\x81\xa3key\xa5value' (the initial input), the empty text, a blank, c0, c1,
\* 92c0c1, d40501
AppTexts ==
  {<<98, 39, 92, 120, 56, 49, 92, 120, 97, 51, 107, 101, 121, 92, 120, 97, 53, 118, 97,
     108, 117, 101, 39>>,
   <<>>, <<32>>, <<99, 48>>, <<99, 49>>, <<57, 50, 99, 48, 99, 49>>, <<100, 52, 48, 53, 48, 49>>}

InitApp ==
  /\ input = <<98, 39, 92, 120, 56, 49, 92, 120, 97, 51, 107, 101, 121, 92, 120, 97, 53, 118,
               97, 108, 117, 101, 39>>
  /\ format = AUTO
  /\ parsedData = Null
  /\ error = Undefined
  /\ appDetected = Undefined
  /\ timers = {[input |-> input, format |-> format]}
  /\ pc = "idle"
  /\ result = Undefined
  /\ bytes = Undefined
  /\ detected = format
  /\ errors = <<>>
  /\ parser = Undefined
  /\ nodeIdCounter = 0
  /\ projections = <<>>
  /\ created = <<>>
  /\ calls = 0

\* Mutant: the effect without its cleanup, so the earlier timeout stays pending.
effect_noCleanup(newInput, newFormat) ==
  timers' = timers \cup {[input |-> newInput, format |-> newFormat]}

\* The effect after a render with new input or format (lines 133-154): the cleanup
\* of the previous run, clearTimeout(timer), then setTimeout(..., 300).
effect(newInput, newFormat) ==
  timers' = (timers \ {[input |-> input, format |-> format]})
              \cup {[input |-> newInput, format |-> newFormat]}

\* The textarea's onChange and the Clear button: setInput(text).
SetInput ==
  /\ \E text \in AppTexts :
        /\ text # input
        /\ input' = text
        /\ effect(text, format)
  /\ UNCHANGED <<format, parsedData, error, appDetected>>
  /\ UNCHANGED <<pc, result, bytes, detected, errors, parser, nodeIdCounter, projections,
                 created, calls>>

\* A format button: setFormat(f).
SetFormat ==
  /\ \E f \in InputFormat :
        /\ f # format
        /\ format' = f
        /\ effect(input, f)
  /\ UNCHANGED <<input, parsedData, error, appDetected>>
  /\ UNCHANGED <<pc, result, bytes, detected, errors, parser, nodeIdCounter, projections,
                 created, calls>>

\* Mutant: the failure branch without setParsedData(null).
show_keepsTree(r) ==
  IF r.success /\ r.data.t # "undefined"
  THEN /\ parsedData' = r.data
       /\ error' = Undefined
       /\ appDetected' = r.detectedFormat
  ELSE /\ error' = r.error
       /\ UNCHANGED <<parsedData, appDetected>>

\* Lines 143-150: what the callback sets from the ParseResult.
show(r) ==
  IF r.success /\ r.data.t # "undefined"
  THEN /\ parsedData' = r.data
       /\ error' = Undefined
       /\ appDetected' = r.detectedFormat
  ELSE /\ error' = r.error
       /\ parsedData' = Null
       /\ UNCHANGED appDetected

\* The call of line 142 and what follows it.
parsed(call) == Completes(call) /\ show(call.value)

\* A pending timeout expires and its callback runs (lines 134-151).
TimerFires ==
  \E timer \in timers :
     /\ timers' = timers \ {timer}
     /\ \/ /\ trim(timer.input) = <<>>
           /\ parsedData' = Null
           /\ error' = Undefined
           /\ appDetected' = Undefined
           /\ UNCHANGED <<pc, result, bytes, detected, errors, parser, nodeIdCounter,
                          created, calls>>
        \/ /\ trim(timer.input) # <<>>
           /\ calls < MaxCalls
           /\ parsed(parseMsgpack(timer.input, timer.format))
     /\ UNCHANGED <<input, format, projections>>

NextApp == SetInput \/ SetFormat \/ TimerFires

SpecApp == InitApp /\ [][NextApp]_vars

(***************************************************************************)
(* Properties                                                              *)
(***************************************************************************)
Decoded == pc = "returned" /\ parser.t = "MsgpackParser"
Failed == pc = "returned" /\ ~result.success
Succeeded == pc = "returned" /\ result.success

\* The error kinds of the specification, by the message the code produces.
IsEmptyInput(m) == m.text = "Empty input"
IsUnknownTag(m) == m.text = "Unknown byte 0x%x at offset %d"
IsUnexpectedEnd(m) ==
  m.text \in {"Unexpected end of input", "Unexpected end of input (String)",
              "Unexpected end of input (Binary)"}
NamesElement(m) ==
  m.text \in {"Unexpected end of input (String)", "Unexpected end of input (Binary)"}
IsFormatUndetected(m) ==
  m.text = "Could not auto-detect format. Please select one manually."

\* C1: parseMsgpack never throws; what it returns is either a success carrying a
\* root node, a resolved format and the original bytes and no error, or a failure
\* carrying a non-empty message and no node.
C1_NeverThrows ==
  /\ pc # "threw"
  /\ pc = "returned" =>
       /\ result.success \in {TRUE, FALSE}
       /\ result.success =>
            /\ result.data.t = "node"
            /\ result.detectedFormat.t = "string"
            /\ result.detectedFormat.v \in InputFormat
            /\ result.originalBytes.t = "Uint8Array"
            /\ result.originalBytes = bytes
            /\ result.error.t = "undefined"
       /\ ~result.success =>
            /\ result.error.t = "string"
            /\ result.error.text # ""
            /\ result.data.t = "undefined"

\* C1 witness: a decode that threw inside the try block came back as a failure.
C1_Witness == Failed /\ parser.t = "MsgpackParser" /\ IsUnknownTag(result.error)

\* C2: for every requested format, empty or whitespace-only text yields the
\* EmptyInput failure and no decode is attempted.
C2_EmptyInputEveryFormat ==
  (pc = "returned" /\ trim(input) = <<>>) =>
     /\ ~result.success
     /\ IsEmptyInput(result.error)
     /\ parser.t = "undefined"

\* Buffers cut short: every non-empty proper prefix of a well-formed encoding.
Truncated == UNION {{SubSeq(b, 1, k) : k \in 1..(Len(b) - 1)} : b \in Framed}

\* C3: a read that would pass the end of the buffer fails with UnexpectedEnd,
\* naming the element read and the offset, and no node is returned.
C3_TruncationIsUnexpectedEnd ==
  (Decoded /\ parser.buffer \in Truncated) =>
     /\ ~result.success
     /\ result.data.t = "undefined"
     /\ IsUnexpectedEnd(result.error)
     /\ NamesElement(result.error)
     /\ result.error.args # <<>>

\* C4: a decode fails with UnknownTag exactly for the tag 0xc1, reporting that
\* byte and the 0-based offset at which it sits in the buffer; on a buffer whose
\* tag positions are known (a lone byte, the element of a one-element array, the
\* key of a one-entry map) the failure is UnknownTag at that position iff the
\* byte there is 0xc1.
C4_UnknownTag ==
  Decoded =>
    /\ (~result.success /\ IsUnknownTag(result.error)) =>
          LET byte == result.error.args[1]
              at == result.error.args[2]
          IN  /\ byte = 193
              /\ at \in 0..(Len(parser.buffer) - 1)
              /\ parser.buffer[at + 1] = byte
              /\ parser.offset = at + 1
    /\ \A b \in 0..255 :
          /\ parser.buffer = <<b>> =>
               ((~result.success /\ IsUnknownTag(result.error)) <=> b = 193)
          /\ (parser.buffer = <<145, b>> \/ parser.buffer = <<129, b, 1>>) =>
               /\ (~result.success /\ IsUnknownTag(result.error)) <=> b = 193
               /\ b = 193 => result.error.args = <<193, 1>>
    /\ parser.buffer = <<193>> => (~result.success /\ result.error.args = <<193, 0>>)

\* C4 witness: the reserved tag met below the root, at a positive offset.
C4_Witness ==
  Failed /\ parser.t = "MsgpackParser" /\ IsUnknownTag(result.error)
  /\ result.error.args[2] > 0

Children(node) == IF node.children.t = "array" THEN node.children.v ELSE <<>>

\* The number of bytes before the first entry of a one-entry map.
MapHeaderLen(buffer) ==
  CASE buffer[1] = 129 -> 1
    [] buffer[1] = 222 -> 3
    [] buffer[1] = 223 -> 5

\* The key the specification resolves from a key node.
ResolvedKey(k) ==
  IF k.type \in {T_NULL, T_BOOLEAN, T_INTEGER, T_FLOAT, T_STRING} THEN k.value ELSE k

\* C5: in a one-entry map of any of the three encodings the key is decoded first,
\* then the value; the map's only child is the value node, carrying the key's raw
\* value when the key is Null, Boolean, Integer, Float or String and the whole
\* key node otherwise; {'key': 'value'} gives one String child 'value' with
\* associated key 'key'.
C5_MapEntryKey ==
  /\ (Decoded /\ parser.buffer \in MapBuffers) =>
        LET buffer == parser.buffer
            k == parse(buffer, MapHeaderLen(buffer), 1, Undefined)
            v == parse(buffer, k.offset, k.counter, Undefined)
        IN  /\ result.success
            /\ result.data.type = T_MAP
            /\ Len(Children(result.data)) = 1
            /\ Children(result.data)[1] = [v.value EXCEPT !.key = ResolvedKey(k.value)]
  /\ (Decoded /\ parser.buffer = <<129, 163, 107, 101, 121, 165, 118, 97, 108, 117, 101>>) =>
        /\ result.success
        /\ result.data.type = T_MAP
        /\ Len(Children(result.data)) = 1
        /\ Children(result.data)[1].type = T_STRING
        /\ Children(result.data)[1].value = Str(<<118, 97, 108, 117, 101>>)
        /\ Children(result.data)[1].key = Str(<<107, 101, 121>>)

RECURSIVE KeysOnMapValuesOnly(_, _)
KeysOnMapValuesOnly(node, isMapValue) ==
  /\ (node.key.t # "undefined") <=> isMapValue
  /\ node.key.t = "node" => KeysOnMapValuesOnly(node.key, FALSE)
  /\ \A i \in 1..Len(Children(node)) :
        KeysOnMapValuesOnly(Children(node)[i], node.type = T_MAP)

\* C6: in a decoded tree every child of a Map node carries an associated key,
\* whatever its kind, and no other node (the root, an array element, a key node)
\* carries one.
C6_KeysOnMapValuesOnly == Succeeded => KeysOnMapValuesOnly(result.data, FALSE)

\* The payload width of the integer tags 0xcc-0xd3.
IntWidth(tag) ==
  CASE tag \in {204, 208} -> 1
    [] tag \in {205, 209} -> 2
    [] tag \in {206, 210} -> 4
    [] tag \in {207, 211} -> 8

RECURSIVE Zeros(_)
Zeros(n) == IF n <= 0 THEN <<>> ELSE <<0>> \o Zeros(n - 1)

\* The big-endian sum of two byte strings of one length, with its carry out.
RECURSIVE AddBE(_, _)
AddBE(a, b) ==
  IF a = <<>> THEN [digits |-> <<>>, carry |-> 0]
  ELSE LET rest == AddBE(Tail(a), Tail(b))
           sum == Head(a) + Head(b) + rest.carry
       IN  [digits |-> <<sum % 256>> \o rest.digits, carry |-> sum \div 256]

\* The number a short byte string denotes, most significant byte first.
RECURSIVE BigEndian(_)
BigEndian(ds) ==
  IF ds = <<>> THEN 0 ELSE BigEndian(SubSeq(ds, 1, Len(ds) - 1)) * 256 + ds[Len(ds)]

RECURSIVE Power256(_)
Power256(n) == IF n = 0 THEN 1 ELSE 256 * Power256(n - 1)

\* w-byte payload p is the big-endian unsigned encoding of the wide integer x.
EncodesUnsigned(p, w, x) ==
  /\ ~x.neg
  /\ Len(x.mag) <= w
  /\ (x.mag # <<>> => x.mag[1] # 0)
  /\ p = Zeros(w - Len(x.mag)) \o x.mag
  /\ Len(x.mag) <= 3 => ToInt(x) = BigEndian(p)

\* w-byte payload p is the big-endian two's complement encoding of x:
\* p = x for 0 <= x < 2^(8w-1), and p + |x| = 2^(8w) for -2^(8w-1) <= x < 0.
EncodesSigned(p, w, x) ==
  /\ Len(x.mag) <= w
  /\ (x.mag # <<>> => x.mag[1] # 0)
  /\ ~x.neg => p[1] < 128 /\ p = Zeros(w - Len(x.mag)) \o x.mag
  /\ x.neg => /\ p[1] >= 128
              /\ x.mag # <<>>
              /\ AddBE(p, Zeros(w - Len(x.mag)) \o x.mag) = [digits |-> Zeros(w), carry |-> 1]
  /\ w <= 2 => ToInt(x) = BigEndian(p) - (IF p[1] >= 128 THEN Power256(w) ELSE 0)

\* C7: a root with tag 0xcc-0xcf decodes to the Integer that is exactly the
\* big-endian unsigned number of the next 1/2/4/8 bytes, with tag 0xd0-0xd3 to the
\* big-endian two's complement number; 64-bit values are bigint (exact), and
\* cf 00 00 00 01 00 00 00 00 is 4294967296 = 1 * 256^4.
C7_IntegersExact ==
  (Decoded /\ parser.buffer[1] \in 204..211 /\ result.success) =>
     LET tag == parser.buffer[1]
         w == IntWidth(tag)
         p == SubSeq(parser.buffer, 2, 1 + w)
         x == result.data.value
     IN  /\ result.data.type = T_INTEGER
         /\ x.t = (IF w = 8 THEN "bigint" ELSE "number")
         /\ tag <= 207 => EncodesUnsigned(p, w, x.v)
         /\ tag >= 208 => EncodesSigned(p, w, x.v)
         /\ parser.offset = 1 + w
         /\ parser.buffer = <<207, 0, 0, 0, 1, 0, 0, 0, 0>> =>
               x.v = [neg |-> FALSE, mag |-> <<1, 0, 0, 0, 0>>]

\* C7 witness: the uint64 4294967296 was decoded.
C7_Witness ==
  Succeeded /\ parser.buffer = <<207, 0, 0, 0, 1, 0, 0, 0, 0>>
  /\ result.data.value = BigInt([neg |-> FALSE, mag |-> <<1, 0, 0, 0, 0>>])

\* The recovery of a resolved format applied to a text.
RecoveredBy(fmt, text) ==
  CASE fmt = HEX -> parseHex(text)
    [] fmt = BASE64 -> parseBase64(text)
    [] fmt = PYTHON -> parsePythonBytes(text)
    [] OTHER -> Throw(Error("Unknown format"))

\* C8: a success echoes a pinned format; under Auto it names Hex, Base64 or the
\* escaped byte string, never Auto, and the bytes are that format's recovery of
\* the trimmed text.
C8_ResolvedFormat ==
  Succeeded =>
    /\ format # AUTO => result.detectedFormat.v = format
    /\ format = AUTO =>
         /\ result.detectedFormat.v \in {HEX, BASE64, PYTHON}
         /\ LET r == RecoveredBy(result.detectedFormat.v, trim(input))
            IN  ~r.threw /\ result.originalBytes.v = r.value

\* C8 witness: an auto-detected Base64 text was decoded.
C8_Witness == Succeeded /\ format = AUTO /\ result.detectedFormat.v = BASE64

\* The shapes of C9, on the text as given.
ValidHexShape(text) ==
  LET digits == stripHex(text)
  IN  digits # <<>> /\ Len(digits) % 2 = 0 /\ \A i \in 1..Len(digits) : IsHexDigit(digits[i])

Base64Shape(text) ==
  /\ Len(text) % 4 = 0
  /\ \A i \in 1..Len(text) : IsBase64Char(text[i]) \/ text[i] = 61
  /\ \A i \in 1..Len(text) : ~IsWhiteSpace(text[i])

\* C9: under Auto a text of both shapes, "8000" among them, resolves to Hex with
\* the hex-decoded bytes.
C9_HexBeforeBase64 ==
  (pc = "returned" /\ format = AUTO /\ ValidHexShape(input) /\ Base64Shape(input)) =>
     /\ detected = HEX
     /\ bytes = Uint8Array(hexPairs(stripHex(input)))
     /\ result.success => result.detectedFormat.v = HEX
     /\ input = <<56, 48, 48, 48>> => (result.success /\ bytes.v = <<128, 0>>)

\* C9 witness: "8000" under Auto.
C9_Witness ==
  Succeeded /\ format = AUTO /\ input = <<56, 48, 48, 48>> /\ result.detectedFormat.v = HEX

\* C10: when auto-detection recovers no bytes it fails with FormatUndetected and
\* the failure carries every per-candidate error message accumulated.
C10_UndetectedCarriesErrors ==
  (pc = "returned" /\ format = AUTO /\ bytes.t = "undefined") =>
     /\ ~result.success
     /\ IsFormatUndetected(result.error)
     /\ \A i \in 1..Len(errors) :
           \E j \in 1..Len(result.error.args) : result.error.args[j] = errors[i]

\* The MalformedInput failures of the hex recovery.
IsMalformedHex(m) == m.text \in {"Invalid Hex string length", "Invalid Hex characters"}

\* The value of a hex digit, by its place in 0123456789abcdef or 0123456789ABCDEF.
LowerDigits == <<48, 49, 50, 51, 52, 53, 54, 55, 56, 57, 97, 98, 99, 100, 101, 102>>
UpperDigits == <<48, 49, 50, 51, 52, 53, 54, 55, 56, 57, 65, 66, 67, 68, 69, 70>>
IsHexDigitChar(c) == \E v \in 1..16 : LowerDigits[v] = c \/ UpperDigits[v] = c
HexDigitValue(c) == (CHOOSE v \in 1..16 : LowerDigits[v] = c \/ UpperDigits[v] = c) - 1

\* C11: for a Hex request, with clean the text after the leading 0x and all
\* whitespace are stripped: an odd length or a non-hex character fails with
\* MalformedInput; a non-empty even run of hex digits is recovered; the bytes
\* recovered are one per pair of digits in order, byte = 16 * high + low whatever
\* the case; "81a3666f6f" gives 81 a3 66 6f 6f and "0xAB" gives what "ab" gives.
C11_ParseHex ==
  (pc = "returned" /\ format = HEX) =>
     LET clean == stripHex(input)
         odd == Len(clean) % 2 = 1
         nonHex == \E i \in 1..Len(clean) : ~IsHexDigitChar(clean[i])
     IN  /\ (odd \/ nonHex) =>
               /\ bytes.t = "undefined"
               /\ ~result.success
               /\ IsMalformedHex(result.error)
         /\ (~odd /\ ~nonHex /\ clean # <<>>) => bytes.t = "Uint8Array"
         /\ bytes.t = "Uint8Array" =>
               /\ 2 * Len(bytes.v) = Len(clean)
               /\ \A i \in 1..Len(bytes.v) :
                     bytes.v[i] = 16 * HexDigitValue(clean[2 * i - 1]) + HexDigitValue(clean[2 * i])
         /\ input = <<56, 49, 97, 51, 54, 54, 54, 102, 54, 102>> =>
               bytes = Uint8Array(<<129, 163, 102, 111, 111>>)
         /\ input \in {<<48, 120, 65, 66>>, <<97, 98>>, <<97, 66>>} => bytes = Uint8Array(<<171>>)

\* C11 witness: "0xAB" recovered as the one byte of "ab".
C11_Witness ==
  pc = "returned" /\ format = HEX /\ input = <<48, 120, 65, 66>> /\ bytes = Uint8Array(<<171>>)

\* b'\x81\xa3key\xa5value'
PythonSample ==
  <<98, 39, 92, 120, 56, 49, 92, 120, 97, 51, 107, 101, 121, 92, 120, 97, 53, 118, 97,
    108, 117, 101, 39>>

\* C12 (as stated): the escaped byte string b'\x81\xa3key\xa5value' is recovered
\* as 12 bytes beginning 81 a3 6b 65 79 a5.
C12_PythonSampleTwelveBytes ==
  (pc = "returned" /\ format = PYTHON /\ input = PythonSample) =>
     /\ bytes.t = "Uint8Array"
     /\ Len(bytes.v) = 12
     /\ SubSeq(bytes.v, 1, 6) = <<129, 163, 107, 101, 121, 165>>

\* C12 (amended): the escaped byte string b'\x81\xa3key\xa5value' is recovered as
\* the 11 bytes 81 a3 6b 65 79 a5 76 61 6c 75 65: two escapes, "key", one escape,
\* "value".
C12_PythonSampleElevenBytes ==
  (pc = "returned" /\ format = PYTHON /\ input = PythonSample) =>
     bytes = Uint8Array(<<129, 163, 107, 101, 121, 165, 118, 97, 108, 117, 101>>)

\* C12 witness: the sample was recovered and decoded.
C12_Witness ==
  Succeeded /\ format = PYTHON /\ input = PythonSample /\ Len(result.originalBytes.v) = 11

\* A tree with every identity replaced by 0, key nodes included.
RECURSIVE WithoutIds(_)
RECURSIVE WithoutIdsAll(_)
WithoutIdsAll(nodes) ==
  IF nodes = <<>> THEN <<>> ELSE <<WithoutIds(Head(nodes))>> \o WithoutIdsAll(Tail(nodes))
WithoutIds(node) ==
  [node EXCEPT !.id = 0,
               !.key = IF @.t = "node" THEN WithoutIds(@) ELSE @,
               !.children = IF @.t = "array" THEN Array(WithoutIdsAll(@.v)) ELSE @]

ProjectionsAgree ==
  \A i \in 1..Len(projections) :
     /\ projections[i] = projections[1]
     /\ projections[i] = serializeNode(WithoutIds(result.data))

TreeUnchanged == pc = "returned" => result' = result

EscapeCode(c) ==
  CASE c = 110 -> 10
    [] c = 114 -> 13
    [] c = 116 -> 9
    [] c = 48 -> 0
    [] OTHER -> c % 256

\* The lenient reading of an escaped text, from its first character on.
RECURSIVE Lenient(_)
Lenient(s) ==
  IF s = <<>> THEN <<>>
  ELSE IF Head(s) # 92 THEN <<Head(s) % 256>> \o Lenient(Tail(s))
  ELSE IF Len(s) = 1 THEN <<92>>
  ELSE IF s[2] # 120 THEN <<EscapeCode(s[2])>> \o Lenient(SubSeq(s, 3, Len(s)))
  ELSE IF Len(s) >= 4 /\ IsHexDigitChar(s[3]) /\ IsHexDigitChar(s[4])
  THEN <<16 * HexDigitValue(s[3]) + HexDigitValue(s[4])>> \o Lenient(SubSeq(s, 5, Len(s)))
  ELSE <<92, 120>> \o Lenient(SubSeq(s, 3, Len(s)))

\* C14: for an escaped-byte-string request the recovery never fails: whatever the
\* text, bytes are recovered, each in 0..255, at most one per character of the
\* unwrapped text; they are the lenient reading of it: \x without two hex digits
\* gives 92 120 and the scan resumes after the x, a last lone backslash gives 92,
\* an unknown \c gives the code of c.
C14_PythonNeverFails ==
  (pc # "idle" /\ format = PYTHON) =>
     /\ pc = "returned"
     /\ bytes.t = "Uint8Array"
     /\ \A i \in 1..Len(bytes.v) : bytes.v[i] \in 0..255
     /\ Len(bytes.v) <= Len(pythonContent(input))
     /\ bytes.v = Lenient(pythonContent(input))
     /\ ~result.success =>
          (IsEmptyInput(result.error) \/ parser.t = "MsgpackParser")
     /\ input = <<92, 120, 56, 92>> => bytes.v = <<92, 120, 56, 92>>
     /\ input = <<92, 98, 92, 61>> => bytes.v = <<98, 61>>

\* C14 witness: \x8\ : an escape short of a digit, then a lone last backslash.
C14_Witness ==
  pc = "returned" /\ format = PYTHON /\ input = <<92, 120, 56, 92>>
  /\ bytes = Uint8Array(<<92, 120, 56, 92>>)

\* A text with all its whitespace taken out.
WithoutWhiteSpace(text) == SelectSeq(text, LAMBDA c : ~IsWhiteSpace(c))

\* C15: for a Hex request whitespace does not count, wherever it stands, before a
\* leading 0x included: the outcome and the bytes recovered are those of the text
\* with all its whitespace taken out.
C15_HexIgnoresWhiteSpace ==
  (pc = "returned" /\ format = HEX) =>
     LET bare == parseHex(WithoutWhiteSpace(input))
     IN  /\ bare.threw <=> bytes.t = "undefined"
         /\ ~bare.threw => bytes = Uint8Array(bare.value)

\* The property name the projection gives a map child, by the kind of its key:
\* a string as it is, another primitive by its text, a key node by the JSON text
\* of its projection.
KeyText(child) ==
  CASE child.key.t = "string" -> child.key.v
    [] child.key.t = "node" -> SerializeJSONProperty(serializeNode(child.key))
    [] OTHER -> StringOf(child.key)

\* The entry of a plain object under a key, and the last child with a key text.
EntriesUnder(obj, key) == {i \in 1..Len(obj.v) : obj.v[i].key = key}
LastWith(children, key) ==
  CHOOSE i \in 1..Len(children) :
     /\ KeyText(children[i]) = key
     /\ \A j \in (i + 1)..Len(children) : KeyText(children[j]) # key

\* A plain object given by its keys and values in property order.
RECURSIVE Plain(_, _)
Plain(keys, values) ==
  IF keys = <<>> THEN <<>>
  ELSE <<[key |-> Head(keys), value |-> Head(values)]>> \o Plain(Tail(keys), Tail(values))

One == Number(Wide(1))
Two == Number(Wide(2))
Three == Number(Wide(3))

RECURSIVE PreOrderIds(_)
RECURSIVE PreOrderIdsAll(_)
PreOrderIdsAll(nodes) ==
  IF nodes = <<>> THEN <<>>
  ELSE (IF Head(nodes).key.t = "node" THEN PreOrderIds(Head(nodes).key) ELSE <<>>)
       \o PreOrderIds(Head(nodes)) \o PreOrderIdsAll(Tail(nodes))
PreOrderIds(node) == <<node.id>> \o PreOrderIdsAll(Children(node))

StrictlyIncreasing(ids) == \A i, j \in 1..Len(ids) : i < j => ids[i] < ids[j]

\* C17: over all the calls made no identity is given twice, identities being
\* given in increasing order, and in a decoded tree they increase in pre-order.
C17_IdentitiesUnique ==
  /\ StrictlyIncreasing(created)
  /\ Succeeded => StrictlyIncreasing(PreOrderIds(result.data))
  /\ parsedData.t = "node" => StrictlyIncreasing(PreOrderIds(parsedData))

\* The element or entry count a container's framing declares: the low 4 bits of a
\* fixarray or fixmap tag, else the 16- or 32-bit big-endian count after the tag.
DeclaredCount(buffer) ==
  CASE buffer[1] \in 128..159 -> Wide(buffer[1] % 16)
    [] buffer[1] \in {220, 222} -> [neg |-> FALSE, mag |-> StripZeros(SubSeq(buffer, 2, 3))]
    [] buffer[1] \in {221, 223} -> [neg |-> FALSE, mag |-> StripZeros(SubSeq(buffer, 2, 5))]

IsContainerTag(b) == b \in 128..159 \/ b \in 220..223

RECURSIVE Field(_, _)
Field(nodes, name) ==
  IF nodes = <<>> THEN <<>> ELSE <<Head(nodes)[name]>> \o Field(Tail(nodes), name)

\* Every Array or Map node of a tree, key nodes included, has as many children as
\* its declared length, created one after the other.
RECURSIVE AsDeclared(_)
AsDeclared(node) ==
  /\ node.type \in {T_ARRAY, T_MAP} =>
        /\ node.children.t = "array"
        /\ node.byteLength = Number(Wide(Len(node.children.v)))
        /\ StrictlyIncreasing(Field(node.children.v, "id"))
  /\ node.type \notin {T_ARRAY, T_MAP} => node.children.t = "undefined"
  /\ node.key.t = "node" => AsDeclared(node.key)
  /\ \A i \in 1..Len(Children(node)) : AsDeclared(Children(node)[i])

\* C18: in a decoded tree every Array or Map node has exactly as many children as
\* the count its framing declares (its declared length) and they stand in wire
\* order; a Map that repeats a key keeps every entry, in arrival order:
\* [3, 2, 1] has children 3, 2, 1 and {"a": 1, "b": 2, "a": 3} has children
\* 1, 2, 3 under "a", "b", "a".
C18_ChildrenAsDeclared ==
  Succeeded =>
     LET root == result.data
         buffer == parser.buffer
         kids == Children(root)
     IN  /\ AsDeclared(root)
         /\ IsContainerTag(buffer[1]) =>
               /\ root.type = (IF buffer[1] \in 128..143 \cup {222, 223} THEN T_MAP ELSE T_ARRAY)
               /\ root.byteLength = Number(DeclaredCount(buffer))
               /\ Wide(Len(kids)) = DeclaredCount(buffer)
         /\ buffer = <<146, 1, 2>> => Field(kids, "value") = <<One, Two>>
         /\ buffer = <<147, 3, 2, 1>> => Field(kids, "value") = <<Three, Two, One>>
         /\ buffer = <<220, 0, 3, 192, 194, 195>> =>
               Field(kids, "value") = <<Null, Bool(FALSE), Bool(TRUE)>>
         /\ buffer = <<130, 1, 1, 1, 2>> =>
               Field(kids, "key") = <<One, One>> /\ Field(kids, "value") = <<One, Two>>
         /\ buffer = <<131, 161, 97, 1, 161, 98, 2, 161, 97, 3>> =>
               /\ Field(kids, "key") = <<Str(<<97>>), Str(<<98>>), Str(<<97>>)>>
               /\ Field(kids, "value") = <<One, Two, Three>>
         /\ buffer = <<222, 0, 2, 192, 1, 192, 2>> =>
               Field(kids, "key") = <<Null, Null>> /\ Field(kids, "value") = <<One, Two>>

\* C18 witness: a map that repeats a key was decoded with both entries.
C18_Witness ==
  /\ Succeeded
  /\ parser.buffer = <<131, 161, 97, 1, 161, 98, 2, 161, 97, 3>>
  /\ Len(Children(result.data)) = 3
  /\ Children(result.data)[1].key = Children(result.data)[3].key

\* A wide count exceeds a number of bytes.
Exceeds(w, n) == ~Fits(w) \/ ToInt(w) > n

\* Root payload families: the bytes before the payload (tag, length prefix and,
\* for an extension, the type byte) and the width of the length prefix.
IsPayloadTag(b) == b \in 160..191 \/ b \in 196..201 \/ b \in 212..219
PrefixWidth(b) ==
  CASE b \in {196, 199, 217} -> 1
    [] b \in {197, 200, 218} -> 2
    [] b \in {198, 201, 219} -> 4
    [] OTHER -> 0
PayloadStart(b) == 1 + PrefixWidth(b) + (IF b \in 199..201 \/ b \in 212..216 THEN 1 ELSE 0)
DeclaredLength(buffer) ==
  CASE buffer[1] \in 160..191 -> Wide(buffer[1] % 32)
    [] buffer[1] \in 212..216 -> Wide(Power(2, buffer[1] - 212))
    [] OTHER -> [neg |-> FALSE, mag |-> StripZeros(SubSeq(buffer, 2, 1 + PrefixWidth(buffer[1])))]
ContainerStart(b) == IF b \in {220, 222} THEN 3 ELSE IF b \in {221, 223} THEN 5 ELSE 1

\* C19: every decode runs to a result, and creates no more nodes than bytes it
\* has consumed, so never more than the buffer holds, whatever the framing
\* declares; a root payload declared longer than the bytes left, and a root array
\* or map declared with more members than bytes left, fail, a missing member
\* being reported with the cursor at the end of the buffer; an arr32 of 2^32-1
\* elements followed by one byte fails after two nodes.
C19_BoundedByBuffer ==
  (pc # "idle" /\ parser.t = "MsgpackParser") =>
     LET buffer == parser.buffer
         tag == buffer[1]
     IN  /\ pc = "returned"
         /\ nodeIdCounter <= parser.offset
         /\ nodeIdCounter <= Len(buffer)
         /\ (/\ IsPayloadTag(tag)
             /\ Len(buffer) >= PayloadStart(tag)
             /\ Exceeds(DeclaredLength(buffer), Len(buffer) - PayloadStart(tag))) =>
               /\ ~result.success
               /\ NamesElement(result.error)
               /\ nodeIdCounter = 1
               /\ parser.offset = PayloadStart(tag)
         /\ (/\ IsContainerTag(tag)
             /\ Len(buffer) >= ContainerStart(tag)
             /\ Exceeds(DeclaredCount(buffer), Len(buffer) - ContainerStart(tag))) =>
               /\ ~result.success
               /\ result.error.text = "Unexpected end of input" => parser.offset = Len(buffer)
         /\ buffer = <<221, 255, 255, 255, 255, 1>> =>
               /\ ~result.success
               /\ result.error.text = "Unexpected end of input"
               /\ nodeIdCounter = 2
               /\ parser.offset = 6
         /\ buffer = <<198, 255, 255, 255, 255, 1>> =>
               /\ ~result.success
               /\ result.error.text = "Unexpected end of input (Binary)"
               /\ nodeIdCounter = 1

\* C19 witness: the arr32 declaring 2^32-1 elements failed at the end of its buffer.
C19_Witness ==
  /\ Failed
  /\ parser.t = "MsgpackParser"
  /\ parser.buffer = <<221, 255, 255, 255, 255, 1>>
  /\ parser.offset = 6
  /\ nodeIdCounter = 2

TreeShown == parsedData.t = "node"
ErrorShown == error.t = "string"

\* A step in which the timer callback called parseMsgpack: what is shown after it.
ShowsTheResult ==
  calls' = calls + 1 =>
     /\ ~result'.success =>
          /\ parsedData' = Null
          /\ error' = result'.error
          /\ \E timer \in timers : error' = parseMsgpack(timer.input, timer.format).value.error
     /\ result'.success =>
          /\ parsedData' = result'.data
          /\ error' = Undefined

\* C20: in the App a tree and an error message are never both shown, whatever the
\* edits, format selections and timer firings; when the timer fires and the parse
\* fails, the tree is cleared and the error is the failure result's message (and
\* when it succeeds the tree is the result's and the error is cleared).
C20_TreeOrError == [](~(TreeShown /\ ErrorShown)) /\ [][ShowsTheResult]_vars

\* C20 witness: a failure is shown after a tree had been shown (the format it was
\* detected in is still set) and the tree is gone.
C20_Witness ==
  /\ ErrorShown
  /\ ~TreeShown
  /\ appDetected.t = "string"
  /\ calls = 2
  /\ ~result.success

Current == [input |-> input, format |-> format]

\* What the callback of lines 134-151 leaves on display for a request.
Displayed(request) ==
  IF trim(request.input) = <<>>
  THEN [parsedData |-> Null, error |-> Undefined]
  ELSE LET r == parseMsgpack(request.input, request.format).value
       IN  IF r.success /\ r.data.t # "undefined"
           THEN [parsedData |-> r.data, error |-> Undefined]
           ELSE [parsedData |-> Null, error |-> r.error]

OnePending == Cardinality(timers) <= 1 /\ timers \subseteq {Current}

Settled ==
  timers = {} => [parsedData |-> parsedData, error |-> error] = Displayed(Current)

\* Every change of input or format leaves exactly the timer of the new request.
Restarts ==
  (input' # input \/ format' # format) =>
     timers' = {[input |-> input', format |-> format']}

\* parseMsgpack runs only from the pending timer, for the request on screen.
OnlyCurrentParsed ==
  calls' # calls =>
     /\ timers = {Current}
     /\ timers' = {}
     /\ UNCHANGED <<input, format>>
     /\ result' = parseMsgpack(input, format).value

\* C21: the App debounces decoding: every change of input or format cancels the
\* pending timer and starts a new one, so at most one timer is pending and it is
\* the one of the current input and format; parseMsgpack runs only for that
\* request, never for a superseded one; and whenever no timer is pending the tree
\* and error shown are those of parsing the current input in the current format
\* (both empty when the input is blank).
C21_Debounced ==
  /\ [](OnePending /\ Settled)
  /\ [][Restarts /\ OnlyCurrentParsed]_vars

\* C21 witness: both input and format were changed, so the initial request and at
\* least one later one were superseded, and parseMsgpack ran once only, for the
\* request now on screen, whose failure is displayed.
C21_Witness ==
  /\ timers = {}
  /\ calls = 1
  /\ format = HEX
  /\ input = <<99, 49>>
  /\ error.t = "string"
  /\ parsedData = Null

\* The cursor where a decode step started at `start` stopped, against the length
\* of its buffer: not before the start, not past the end, and past the start
\* unless the step began at the end (where it fails without moving).
Within(step, start, length) ==
  /\ step.offset >= start
  /\ step.offset <= length
  /\ (step.offset = start) <=> (start = length)
  /\ (start = length) => step.threw

\* C22: during any decode, successful or failing, the cursor never decreases and
\* never exceeds the buffer length: the cursor of the call stops inside the
\* buffer, and a decode step started at any position of the buffer, whether it
\* returns or throws, leaves the cursor at or after that position and at or before
\* the end.
C22_CursorMonotoneInBounds ==
  (pc # "idle" /\ parser.t = "MsgpackParser") =>
     /\ parser.offset \in 1..Len(parser.buffer)
     /\ \A start \in 0..Len(parser.buffer) :
           Within(parse(parser.buffer, start, 0, Undefined), start, Len(parser.buffer))

\* C22 witness: a read through the DataView failed on a buffer of three bytes and
\* the cursor was left just past the tag.
C22_Witness ==
  /\ Failed
  /\ parser.t = "MsgpackParser"
  /\ Len(parser.buffer) = 3
  /\ result.error.text = "Offset is outside the bounds of the DataView"
  /\ parser.offset = 1

\* The bytes appended: up to MaxTrailing of 0x00, 0x91 (an array header) and 0xc1
\* (the unassigned tag).
MaxTrailing == 2
Trailing == SeqsUpTo({0, 145, 193}, MaxTrailing)

\* The call on the longer buffer succeeded with the tree `data`, stopped at
\* `offset`, and its originalBytes are the longer buffer.
SameTree(call, data, offset, longer) ==
  /\ ~call.threw
  /\ call.value.success
  /\ call.value.error = Undefined
  /\ call.value.data = data
  /\ call.value.originalBytes = Uint8Array(longer)
  /\ call.state.parser.offset = offset
  /\ call.state.counter = nodeIdCounter

\* C23: parseMsgpack decodes one value from the start of the buffer and does not
\* require the cursor to reach the end: when a buffer decodes successfully, the
\* same buffer with any bytes appended (given as hex) also decodes successfully,
\* to the same tree (kinds, values, children, keys and ids), with the cursor at
\* the same place, the appended bytes showing only in originalBytes.
C23_TrailingBytesIgnored ==
  (Succeeded /\ parser.t = "MsgpackParser") =>
     \A extra \in Trailing :
        SameTree(parseMsgpack(toHexText(parser.buffer \o extra), HEX), result.data,
                 parser.offset, parser.buffer \o extra)

\* C23 witness: a map of one entry followed by the unassigned tag 0xc1 decoded
\* successfully, the cursor stopping before the last byte, which is in originalBytes.
C23_Witness ==
  /\ Succeeded
  /\ parser.t = "MsgpackParser"
  /\ parser.offset < Len(parser.buffer)
  /\ parser.buffer[Len(parser.buffer)] = 193
  /\ result.data.type = T_MAP
  /\ Len(result.data.children.v) = 1
  /\ result.originalBytes = Uint8Array(parser.buffer)

====
